---- MODULE Spec2Model ----
(***************************************************************************)
(* Model of the FIT workout core of the Garmin Workout Uploader            *)
(* (src/garmin_uploader_mac.py, src/garmin_uploader_win.py):               *)
(*   validate_fit_file, repair_fit_file, parse_fit_file,                   *)
(*   parse_fit_with_fitparse, parse_fit_basic, process_steps_for_preview.  *)
(*                                                                         *)
(* A FIT file is represented by what fitparse's FitFile delivers for it:   *)
(* whether it decodes at all, and the decoded workout / workout_step       *)
(* messages with their field values.  The weight and target fields of a    *)
(* workout_step only feed display strings and are left out.                *)
(***************************************************************************)
EXTENDS Integers, Sequences, FiniteSets, TLC

VARIABLES
    platform,               \* "mac" | "win": which of the two programs runs
    FITFILETOOL_AVAILABLE,  \* import of amakaflow_fitfiletool succeeded
    FITPARSE_AVAILABLE,     \* import of fitparse succeeded
    disk,                   \* path -> file content (NoFile when absent)
    filepath,               \* the path the user works on
    workout_data,           \* path -> the model the last parse of it returned
    processed,              \* last result of process_steps_for_preview
    validation,             \* path -> the last outcome of validate_fit_file
    workout,                \* the workout last handed to build_fit_workout
    repair,                 \* last outcome of repair_fit_file
    reader,                 \* compressed-timestamp state of the binary reader
    loop,                   \* locals of the step loop being executed
    gui,                    \* fields and widgets of the application window
    monitor,                \* position of the device-monitor thread
    pc                      \* which operations have run (per specification)

vars == <<platform, FITFILETOOL_AVAILABLE, FITPARSE_AVAILABLE, disk, filepath,
          workout_data, processed, validation, workout, repair, reader,
          loop, gui, monitor, pc>>

(***************************************************************************)
(* Python values.  A field value that may be an int, a string or None is a *)
(* tagged record; str() and truthiness are computed as Python does.        *)
(***************************************************************************)
PyNone == [t |-> "none", n |-> 0, s |-> ""]
\* The message's definition does not carry the field at all.
PyAbsent == [t |-> "absent", n |-> 0, s |-> ""]
PyInt(k) == [t |-> "int", n |-> k, s |-> ""]
PyStr(x) == [t |-> "str", n |-> 0, s |-> x]

\* bool(v)
Truthy(v) ==
    CASE v.t \in {"none", "absent"} -> FALSE
      [] v.t = "int"  -> v.n # 0
      [] OTHER        -> v.s # ""

Digit(d) ==
    CASE d = 0 -> "0" [] d = 1 -> "1" [] d = 2 -> "2" [] d = 3 -> "3"
      [] d = 4 -> "4" [] d = 5 -> "5" [] d = 6 -> "6" [] d = 7 -> "7"
      [] d = 8 -> "8" [] OTHER -> "9"

RECURSIVE IntStr(_)
\* str(n) for a non-negative int
IntStr(k) == IF k < 10 THEN Digit(k) ELSE IntStr(k \div 10) \o Digit(k % 10)

\* str(v)
str(v) ==
    CASE v.t = "none" -> "None"
      [] v.t = "int"  -> IntStr(v.n)
      [] OTHER        -> v.s

\* Absent dictionary key / Python None held in a string-typed slot.
Absent == "<absent>"
NoneStr == "<None>"
\* Python None held in an int-typed slot (FIT integers are unsigned).
NoInt == -1

\* s.replace('_', ' ').title() and s.title() on the strings of the model
title(s) ==
    CASE s = "running"           -> "Running"
      [] s = "cycling"           -> "Cycling"
      [] s = "training"          -> "Training"
      [] s = "treadmill"         -> "Treadmill"
      [] s = "strength_training" -> "Strength Training"
      [] s = "exercise"          -> "Exercise"
      [] s = "lunge"             -> "Lunge"
      [] s = "squat"             -> "Squat"
      [] s = "generic"           -> "Generic"
      [] s = "virtual_run"       -> "Virtual_Run"
      [] s = "fitness_equipment" -> "Fitness_Equipment"
      [] OTHER                   -> s      \* digits are unchanged by title()

\* s.replace('_', ' ')
replace_us(s) == IF s = "strength_training" THEN "strength training" ELSE s

\* s.lower(): the sport strings of the model are lower case but "Running"
lower(s) == IF s = "Running" THEN "running" ELSE s

\* 'run' in s
has_run(s) ==
    s \in {"running", "run", "trail_running", "indoor_running", "virtual_run"}

\* 'repeat' in s.lower()
has_repeat(s) ==
    s \in {"repeat_until_steps_cmplt", "repeat_until_time",
           "repeat_until_distance", "repeat_until_calories"}


\* bool(v) of an int-typed slot
TruthyI(v) == v # NoInt /\ v # 0
\* d.get(key, default) for a string slot and for an int slot
Get(v, default) == IF v = Absent THEN default ELSE v
GetI(v, default) == IF v = NoInt THEN default ELSE v
\* bool(d.get(key)) for a string slot
TruthyS(v) == v \notin {Absent, NoneStr, ""}

(***************************************************************************)
(* A decoded workout_step message: the values of record.fields, in the    *)
(* order of the FIT profile's field numbers.  A string field holds "" for  *)
(* None, an int field NoInt.                                               *)
(***************************************************************************)
NoFields ==
    [wkt_step_name |-> "", duration_type |-> PyAbsent, duration_value |-> NoInt,
     duration_reps |-> NoInt, duration_time |-> NoInt,
     duration_distance |-> NoInt, repeat_steps |-> NoInt,
     intensity |-> PyAbsent, notes |-> "", exercise_category |-> PyAbsent,
     exercise_name |-> NoInt]

\* The step dictionary the second pass starts from, and one absent key each.
NoStep ==
    [is_rest |-> FALSE, is_repeat |-> FALSE, is_warmup |-> FALSE,
     name |-> Absent, category |-> Absent, exercise_id |-> NoInt,
     duration_type |-> Absent, repeat_count |-> NoInt, reps |-> NoInt,
     duration |-> NoInt, distance |-> NoInt, intensity |-> Absent,
     notes |-> Absent]

\* 'repeat' in dtype_str.lower() or dtype_str in ('6', '7', '8', '9')
is_repeat_type(dtype_str) ==
    has_repeat(lower(dtype_str)) \/ dtype_str \in {"6", "7", "8", "9"}

\* Mac, second pass: one workout_step record to one step dictionary.
decode_step_mac(f) ==
    LET dt_present == f.duration_type.t # "absent"
        dtype_str  == IF Truthy(f.duration_type) THEN str(f.duration_type) ELSE ""
        rep_dt     == dt_present /\ is_repeat_type(dtype_str)
        in_present == f.intensity.t # "absent"
        intensity  == IF f.intensity.t # "none" THEN str(f.intensity) ELSE NoneStr
        \* duration_value is read after duration_type and before repeat_steps
        rc_dv      == IF f.duration_value # NoInt /\ rep_dt
                      THEN f.duration_value ELSE NoInt
    IN  [NoStep EXCEPT
          !.name = IF f.wkt_step_name # "" THEN f.wkt_step_name ELSE Absent,
          !.category = IF Truthy(f.exercise_category)
                       THEN str(f.exercise_category) ELSE Absent,
          !.exercise_id = f.exercise_name,
          !.duration_type = IF dt_present THEN dtype_str ELSE Absent,
          !.is_repeat = rep_dt \/ TruthyI(f.repeat_steps),
          !.repeat_count = IF TruthyI(f.repeat_steps) THEN f.repeat_steps ELSE rc_dv,
          !.reps = IF TruthyI(f.duration_reps) THEN f.duration_reps ELSE NoInt,
          !.duration = IF TruthyI(f.duration_time) THEN f.duration_time ELSE NoInt,
          !.distance = IF TruthyI(f.duration_distance)
                       THEN f.duration_distance ELSE NoInt,
          !.intensity = IF in_present THEN intensity ELSE Absent,
          !.is_rest = in_present /\ intensity \in {"rest", "1"},
          !.is_warmup = in_present /\ intensity \notin {"rest", "1"}
                        /\ intensity \in {"warmup", "2"},
          !.notes = IF f.notes # "" THEN f.notes ELSE Absent]

\* Windows, second pass.
decode_step_win(f) ==
    LET in_present == f.intensity.t # "absent"
        intensity  == IF Truthy(f.intensity) THEN str(f.intensity) ELSE NoneStr
    IN  [NoStep EXCEPT
          !.name = IF f.wkt_step_name # "" THEN f.wkt_step_name ELSE Absent,
          !.category = IF Truthy(f.exercise_category)
                       THEN str(f.exercise_category) ELSE Absent,
          !.exercise_id = f.exercise_name,
          !.duration_type = IF f.duration_type.t # "absent"
                            THEN str(f.duration_type) ELSE Absent,
          !.is_repeat = TruthyI(f.repeat_steps),
          !.repeat_count = IF TruthyI(f.repeat_steps) THEN f.repeat_steps ELSE NoInt,
          !.reps = IF TruthyI(f.duration_reps) THEN f.duration_reps ELSE NoInt,
          !.duration = IF TruthyI(f.duration_time) THEN f.duration_time ELSE NoInt,
          !.distance = IF TruthyI(f.duration_distance)
                       THEN f.duration_distance ELSE NoInt,
          !.intensity = IF in_present THEN intensity ELSE Absent,
          !.is_rest = in_present /\ intensity = "rest",
          !.notes = IF f.notes # "" THEN f.notes ELSE Absent]

\* steps_raw: the second pass over all workout_step messages
steps_raw(plat, msgs) ==
    [k \in 1..Len(msgs) |->
        IF plat = "mac" THEN decode_step_mac(msgs[k]) ELSE decode_step_win(msgs[k])]

cardio_sports ==
    {"running", "cycling", "swimming", "walking", "hiking", "run", "bike",
     "swim", "walk", "hike", "cardio", "trail_running", "treadmill"}

\* workout_data['sport'] / ['sub_sport'] after the workout message was read
wd_sport(file) == IF Truthy(file.sport) THEN str(file.sport) ELSE NoneStr
wd_sub_sport(file) == IF Truthy(file.sub_sport) THEN str(file.sub_sport) ELSE Absent

\* the classification by membership alone, without the 'run' substring test
is_cardio_listed(file) ==
    LET sport_lower     == IF wd_sport(file) = NoneStr THEN ""
                           ELSE lower(wd_sport(file))
        sub_sport_lower == IF wd_sub_sport(file) = Absent THEN ""
                           ELSE lower(wd_sub_sport(file))
    IN  sport_lower \in cardio_sports \/ sub_sport_lower \in cardio_sports

is_cardio(file) ==
    LET sport_lower     == IF wd_sport(file) = NoneStr THEN ""
                           ELSE lower(wd_sport(file))
        sub_sport_lower == IF wd_sub_sport(file) = Absent THEN ""
                           ELSE lower(wd_sub_sport(file))
    IN  \/ sport_lower \in cardio_sports
        \/ sub_sport_lower \in cardio_sports
        \/ has_run(sport_lower)
        \/ has_run(sub_sport_lower)

(***************************************************************************)
(* The title index built by the first pass from the exercise_title         *)
(* messages: exercise_titles[(category, exercise_id)] and                  *)
(* exercise_titles[category]; a later message overwrites an earlier one.   *)
(***************************************************************************)
title_category(t) ==
    IF Truthy(t.exercise_category) THEN str(t.exercise_category) ELSE NoneStr

\* the messages that enter the index
indexed_titles(titles) ==
    SelectSeq(titles, LAMBDA t : title_category(t) # NoneStr /\ t.wkt_step_name # "")

RECURSIVE last_title(_, _, _, _)
\* the name stored last under the key, "" when the key is not in the index
last_title(idx, cat, ex_id, by_pair) ==
    IF idx = <<>> THEN ""
    ELSE LET t == idx[Len(idx)]
         IN  IF title_category(t) = cat /\ (~by_pair \/ t.exercise_name = ex_id)
             THEN t.wkt_step_name
             ELSE last_title(SubSeq(idx, 1, Len(idx) - 1), cat, ex_id, by_pair)

(***************************************************************************)
(* An entry of workout_data['steps'].  idx is the position (from 1) of the *)
(* workout_step message the entry was made from: it stands for the         *)
(* identity of the dictionary and is not a key of it.                      *)
(***************************************************************************)
NoEntry ==
    [idx |-> 0, is_rest |-> FALSE, is_repeat |-> FALSE, repeat_count |-> NoInt,
     name |-> Absent, step_type |-> Absent, duration_type |-> Absent,
     rest_seconds |-> NoInt, duration |-> NoInt, reps |-> NoInt,
     distance |-> NoInt, sets |-> NoInt, rest |-> NoInt, category |-> Absent,
     notes |-> Absent, zone |-> Absent, type |-> Absent]

RECURSIVE set_last_exercise_sets(_, _)
\* for ex in reversed(exercises): the first that is neither a rest nor a
\* repeat entry gets ex['sets'] = n
set_last_exercise_sets(exercises, n) ==
    IF exercises = <<>> THEN <<>>
    ELSE LET k == Len(exercises) IN
         IF ~exercises[k].is_rest /\ ~exercises[k].is_repeat
         THEN [exercises EXCEPT ![k].sets = n]
         ELSE Append(set_last_exercise_sets(SubSeq(exercises, 1, k - 1), n),
                     exercises[k])

\* the open duration types of a rest or warm-up step
open_types == {"open", "repeat_until_steps_cmplt"}

\* Mac, third pass: the entry of a repeat marker
repeat_step_mac(step, k) ==
    [NoEntry EXCEPT !.idx = k, !.is_repeat = TRUE,
        !.repeat_count = GetI(step.repeat_count, 0),
        !.name = IntStr(GetI(step.repeat_count, 0) + 1) \o " Sets",
        !.step_type = "repeat"]

\* Mac, third pass: the entry of a rest step
rest_step_mac(step, k) ==
    [NoEntry EXCEPT !.idx = k, !.is_rest = TRUE, !.step_type = "rest",
        !.name = "Rest",
        !.duration_type = IF step.duration_type \in open_types THEN "open"
                          ELSE Get(step.duration_type, "time"),
        !.rest_seconds = GetI(step.duration, 0),
        !.duration = GetI(step.duration, 0),
        !.category = Get(step.category, NoneStr)]

\* Mac, third pass: the entry of a warm-up step
warmup_step_mac(step, k) ==
    [NoEntry EXCEPT !.idx = k, !.step_type = "warmup",
        !.name = IF TruthyS(step.name) THEN step.name ELSE "Warm-Up",
        !.duration_type = IF step.duration_type \in open_types THEN "open"
                          ELSE Get(step.duration_type, "time"),
        !.duration = GetI(step.duration, 0),
        !.category = Get(step.category, NoneStr)]

\* The cardio branch calls workout_data.get('sport', 'exercise').title():
\* the key 'sport' is always present, so the default is never used and a
\* sport of None raises AttributeError.
cardio_name_raises(file) == wd_sport(file) = NoneStr

\* name and step_type of a cardio step (Mac: intensity may be a digit string)
cardio_naming(plat, file, step) ==
    LET sport_name == title(wd_sport(file))
        intensity  == step.intensity
        notes      == step.notes
        by_notes   == IF TruthyS(notes) THEN notes ELSE sport_name
        digits     == plat = "mac"
    IN  IF intensity = "warmup" \/ (digits /\ intensity = "2")
            THEN [name |-> "Warm Up", step_type |-> "warmup"]
        ELSE IF intensity = "cooldown" \/ (digits /\ intensity = "3")
            THEN [name |-> "Cool Down", step_type |-> "cooldown"]
        ELSE IF intensity = "rest" \/ (digits /\ intensity = "1")
            THEN [name |-> "Recovery", step_type |-> "rest"]
        ELSE [name |-> by_notes, step_type |-> "active"]

\* name of a strength step; k is the step's position from 1
strength_naming(plat, file, step, k) ==
    LET cat    == step.category
        idx    == indexed_titles(file.titles)
        pair   == last_title(idx, cat, step.exercise_id, TRUE)
        bare   == last_title(idx, cat, step.exercise_id, FALSE)
    IN  IF TruthyS(step.name) THEN step.name
        ELSE IF TruthyS(cat) /\ pair # "" THEN pair
        ELSE IF TruthyS(cat) /\ bare # "" THEN bare
        ELSE IF TruthyS(cat) THEN title(replace_us(cat))
        ELSE IF plat = "mac" THEN "Exercise"
        ELSE "Exercise " \o IntStr(k)

\* Mac, third pass: the entry of any other step
exercise_mac(file, step, k) ==
    LET cardio == is_cardio(file)
        cn     == cardio_naming("mac", file, step)
        name   == IF cardio THEN cn.name ELSE strength_naming("mac", file, step, k)
        cat    == step.category
    IN  [NoEntry EXCEPT !.idx = k, !.name = name,
          !.step_type = IF cardio THEN cn.step_type ELSE Absent,
          !.notes = IF cardio /\ TruthyS(step.notes) /\ name # step.notes
                    THEN step.notes ELSE Absent,
          !.reps = step.reps, !.duration = step.duration,
          !.distance = step.distance,
          !.zone = IF TruthyS(step.notes) /\ cardio THEN step.notes ELSE Absent,
          !.sets = 1,
          !.type = IF TruthyS(cat) THEN title(replace_us(cat)) ELSE "",
          !.category = Get(cat, NoneStr)]

RECURSIVE third_pass_mac_rest_first(_, _, _, _)
\* the loop with the rest branch tested before the repeat branch
third_pass_mac_rest_first(file, raw, i, exercises) ==
    IF i > Len(raw) THEN [raised |-> FALSE, exercises |-> exercises]
    ELSE LET step == raw[i] IN
         IF step.is_rest THEN
            third_pass_mac_rest_first(file, raw, i + 1,
                Append(exercises, rest_step_mac(step, i)))
         ELSE IF step.is_repeat THEN
            third_pass_mac_rest_first(file, raw, i + 1,
                Append(IF exercises # <<>> /\ TruthyI(step.repeat_count)
                       THEN set_last_exercise_sets(exercises, step.repeat_count + 1)
                       ELSE exercises,
                       repeat_step_mac(step, i)))
         ELSE IF step.is_warmup THEN
            third_pass_mac_rest_first(file, raw, i + 1,
                Append(exercises, warmup_step_mac(step, i)))
         ELSE IF is_cardio(file) /\ cardio_name_raises(file) THEN
            [raised |-> TRUE, exercises |-> exercises]
         ELSE
            third_pass_mac_rest_first(file, raw, i + 1,
                Append(exercises, exercise_mac(file, step, i)))

RECURSIVE third_pass_mac(_, _, _, _)
\* the while loop from index i (from 1) with the entries made so far;
\* [raised, exercises]
third_pass_mac(file, raw, i, exercises) ==
    IF i > Len(raw) THEN [raised |-> FALSE, exercises |-> exercises]
    ELSE LET step == raw[i] IN
         IF step.is_repeat THEN
            third_pass_mac(file, raw, i + 1,
                Append(IF exercises # <<>> /\ TruthyI(step.repeat_count)
                       THEN set_last_exercise_sets(exercises, step.repeat_count + 1)
                       ELSE exercises,
                       repeat_step_mac(step, i)))
         ELSE IF step.is_rest THEN
            third_pass_mac(file, raw, i + 1, Append(exercises, rest_step_mac(step, i)))
         ELSE IF step.is_warmup THEN
            third_pass_mac(file, raw, i + 1, Append(exercises, warmup_step_mac(step, i)))
         ELSE IF is_cardio(file) /\ cardio_name_raises(file) THEN
            [raised |-> TRUE, exercises |-> exercises]
         ELSE
            third_pass_mac(file, raw, i + 1, Append(exercises, exercise_mac(file, step, i)))

\* Windows, third pass: the entry of a step that is kept
exercise_win(file, step, k) ==
    LET cardio == is_cardio(file)
        cn     == cardio_naming("win", file, step)
        name   == IF cardio THEN cn.name ELSE strength_naming("win", file, step, k)
        cat    == step.category
    IN  [NoEntry EXCEPT !.idx = k, !.name = name,
          !.step_type = IF cardio THEN cn.step_type ELSE Absent,
          !.notes = IF cardio /\ TruthyS(step.notes) /\ name # step.notes
                    THEN step.notes ELSE Absent,
          !.type = IF ~cardio /\ TruthyS(cat) THEN replace_us(cat) ELSE Absent,
          !.duration = step.duration, !.distance = step.distance,
          !.reps = step.reps, !.sets = 1]

RECURSIVE third_pass_win(_, _, _, _)
third_pass_win(file, raw, i, exercises) ==
    IF i > Len(raw) THEN [raised |-> FALSE, exercises |-> exercises]
    ELSE LET step == raw[i]
             n    == Len(exercises)
         IN
         IF step.is_repeat THEN
            third_pass_win(file, raw, i + 1,
                IF n > 0 /\ TruthyI(step.repeat_count)
                THEN [exercises EXCEPT ![n].sets = step.repeat_count + 1]
                ELSE exercises)
         ELSE IF ~is_cardio(file) /\ step.is_rest THEN
            third_pass_win(file, raw, i + 1,
                IF n > 0 /\ TruthyI(step.duration)
                THEN [exercises EXCEPT ![n].rest = step.duration]
                ELSE exercises)
         ELSE IF is_cardio(file) /\ cardio_name_raises(file) THEN
            [raised |-> TRUE, exercises |-> exercises]
         ELSE
            third_pass_win(file, raw, i + 1, Append(exercises, exercise_win(file, step, i)))

(***************************************************************************)
(* A file on disk.  exists: open() succeeds; header: what parse_fit_basic   *)
(* reads of the first bytes (size = len(data), header_size = data[0],      *)
(* signature = data[8:12]); decodes: FitFile reads it to the end without   *)
(* raising; texts: the printable runs parse_fit_basic keeps (kw: the run   *)
(* holds one of its keywords).  titles and steps are the exercise_title    *)
(* and workout_step messages in file order; stream, when a specification   *)
(* draws it, is the two kinds in the order they lie in the file.           *)
(***************************************************************************)
NoHeader == [size |-> 0, header_size |-> 0, signature |-> ""]

\* the 14-byte header of a FIT file, followed by records
FitHeader == [size |-> 64, header_size |-> 14, signature |-> ".FIT"]

\* the three checks of the Mac basic parser, in its order
header_rejected(h) ==
    IF h.size < 14 THEN TRUE
    ELSE IF h.header_size < 12 THEN TRUE
    ELSE h.signature # ".FIT"

NoFile ==
    [exists |-> FALSE, header |-> NoHeader, decodes |-> FALSE, texts |-> <<>>,
     wkt_name |-> "", sport |-> PyAbsent, sub_sport |-> PyAbsent,
     titles |-> <<>>, steps |-> <<>>, stream |-> <<>>]

\* Python None as a parse result, and a model with nothing in it yet
NoneModel ==
    [kind |-> "None", parser |-> "", name |-> "", sport |-> NoneStr,
     sub_sport |-> Absent, steps |-> <<>>]

RECURSIVE basic_scan(_, _, _)
\* the scan of parse_fit_basic over the kept runs: [name, steps]
basic_scan(texts, name, steps) ==
    IF texts = <<>> THEN [name |-> name, steps |-> steps]
    ELSE LET t == Head(texts) IN
         IF t.kw
         THEN basic_scan(Tail(texts), IF steps = <<>> THEN t.s ELSE name, steps)
         ELSE basic_scan(Tail(texts), name,
                  Append(steps, [NoEntry EXCEPT !.name = t.s, !.type = "exercise"]))

parse_fit_basic_mac(file) ==
    IF ~file.exists \/ header_rejected(file.header) THEN NoneModel
    ELSE LET r == basic_scan(file.texts, "Workout", <<>>) IN
         [NoneModel EXCEPT !.kind = "model", !.parser = "basic", !.name = r.name,
            !.sport = Absent,
            !.steps = IF r.steps = <<>>
                      THEN << [NoEntry EXCEPT !.name = "Workout content",
                                              !.type = "workout"],
                              [NoEntry EXCEPT
                                 !.name = "(Install fitparse for detailed view)",
                                 !.type = "info"] >>
                      ELSE r.steps]

parse_fit_basic_win(file) ==
    IF ~file.exists THEN NoneModel
    ELSE [NoneModel EXCEPT !.kind = "model", !.parser = "basic",
            !.name = "Workout", !.sport = "training",
            !.steps = << [NoEntry EXCEPT
                            !.name = "(Install fitparse for detailed view)",
                            !.type = "info"] >>]

parse_fit_basic(plat, file) ==
    IF plat = "mac" THEN parse_fit_basic_mac(file) ELSE parse_fit_basic_win(file)

\* the name and sport the workout message leaves in workout_data
fitparse_model(file, exercises) ==
    [NoneModel EXCEPT !.kind = "model", !.parser = "fitparse",
        !.name = IF file.wkt_name # "" THEN file.wkt_name ELSE "Workout",
        !.sport = wd_sport(file), !.sub_sport = wd_sub_sport(file),
        !.steps = exercises]

parse_fit_with_fitparse_mac(file) ==
    IF ~file.exists \/ ~file.decodes THEN parse_fit_basic_mac(file)
    ELSE LET r == third_pass_mac(file, steps_raw("mac", file.steps), 1, <<>>) IN
         IF r.raised THEN parse_fit_basic_mac(file)
         ELSE IF r.exercises = <<>> THEN NoneModel
         ELSE fitparse_model(file, r.exercises)

parse_fit_with_fitparse_win(file) ==
    IF ~file.exists \/ ~file.decodes THEN NoneModel
    ELSE LET r == third_pass_win(file, steps_raw("win", file.steps), 1, <<>>) IN
         IF r.raised THEN NoneModel
         ELSE fitparse_model(file, r.exercises)

\* the fitparse parser without its except clause: the exception leaves
\* the call
parse_fit_with_fitparse_uncaught(plat, file) ==
    LET raw == steps_raw(plat, file.steps)
        r   == IF plat = "mac" THEN third_pass_mac(file, raw, 1, <<>>)
               ELSE third_pass_win(file, raw, 1, <<>>)
    IN  IF ~file.exists \/ ~file.decodes \/ r.raised
        THEN [NoneModel EXCEPT !.kind = "raised"]
        ELSE IF plat = "mac" /\ r.exercises = <<>> THEN NoneModel
        ELSE fitparse_model(file, r.exercises)

parse_fit_with_fitparse(plat, file) ==
    IF plat = "mac" THEN parse_fit_with_fitparse_mac(file)
    ELSE parse_fit_with_fitparse_win(file)

(***************************************************************************)
(* process_steps_for_preview (Mac): the flat step list to display rows.    *)
(***************************************************************************)
repeat_header(count) ==
    [display_type |-> "repeat_header", repeat_count |-> count,
     text |-> IntStr(count) \o " Sets", step |-> NoEntry]

display_row(kind, step) ==
    [display_type |-> kind, repeat_count |-> NoInt, text |-> Absent, step |-> step]

\* next_step.get('is_rest') or next_step.get('step_type') == 'rest'
row_is_rest(step) == step.is_rest \/ step.step_type = "rest"

RECURSIVE process_steps_from_header_last(_, _, _)
\* the loop with the header of a block appended after its two nested rows
process_steps_from_header_last(steps, i, out) ==
    IF i > Len(steps) THEN out
    ELSE IF i + 2 <= Len(steps) /\ row_is_rest(steps[i + 1]) /\ steps[i + 2].is_repeat
    THEN process_steps_from_header_last(steps, i + 3,
            out \o << display_row("nested_exercise", steps[i]),
                      display_row("nested_rest", steps[i + 1]),
                      repeat_header(GetI(steps[i + 2].repeat_count, 0) + 1) >>)
    ELSE IF steps[i].is_repeat
    THEN process_steps_from_header_last(steps, i + 1, out)
    ELSE process_steps_from_header_last(steps, i + 1,
            Append(out, display_row("regular", steps[i])))

RECURSIVE process_steps_from(_, _, _)
\* the while loop from index i (from 1)
process_steps_from(steps, i, out) ==
    IF i > Len(steps) THEN out
    ELSE IF i + 2 <= Len(steps) /\ row_is_rest(steps[i + 1]) /\ steps[i + 2].is_repeat
    THEN process_steps_from(steps, i + 3,
            out \o << repeat_header(GetI(steps[i + 2].repeat_count, 0) + 1),
                      display_row("nested_exercise", steps[i]),
                      display_row("nested_rest", steps[i + 1]) >>)
    ELSE IF steps[i].is_repeat
    THEN process_steps_from(steps, i + 1, out)
    ELSE process_steps_from(steps, i + 1, Append(out, display_row("regular", steps[i])))

process_steps_for_preview(steps) == process_steps_from(steps, 1, <<>>)

(***************************************************************************)
(* validate_fit_file.  An outcome is what the call returns, or that it     *)
(* raised.  The text of an issue is kept without the list it formats.      *)
(***************************************************************************)
\* a range check that lets 45 through
VALID_CATEGORIES_to_45 == 0..45

VALID_CATEGORIES == 0..32

IssueInvalid == "Invalid exercise categories found"
IssueWatch == "These may cause the workout to not appear on your Garmin watch."
IssueError == "Error validating file"

RECURSIVE invalid_category_list(_)
\* invalid_categories after the loop over the workout_step records
invalid_category_list(msgs) ==
    IF msgs = <<>> THEN <<>>
    ELSE LET c    == Head(msgs).exercise_category
             rest == invalid_category_list(Tail(msgs))
         IN  IF c.t = "int" /\ c.n \notin VALID_CATEGORIES
             THEN <<c.n>> \o rest ELSE rest

RECURSIVE sorted_list(_)
sorted_list(S) ==
    IF S = {} THEN <<>>
    ELSE LET m == CHOOSE x \in S : \A y \in S : x <= y
         IN  <<m>> \o sorted_list(S \ {m})

\* the list without set(): duplicates stay
list_without_set(xs) == xs

\* list(set(xs)): each value once (written in ascending order)
list_of_set(xs) == sorted_list({xs[k] : k \in 1..Len(xs)})

ValidationResult(valid, issues, cats) ==
    [raised |-> FALSE, valid |-> valid, issues |-> issues,
     invalid_categories |-> cats]

\* the local validator without its except clause
validate_local_uncaught(fitparse, file) ==
    IF ~fitparse THEN ValidationResult(TRUE, <<>>, <<>>)
    ELSE IF ~file.exists \/ ~file.decodes
    THEN [ValidationResult(FALSE, <<>>, <<>>) EXCEPT !.raised = TRUE]
    ELSE LET invalid_categories == invalid_category_list(file.steps)
             issues == IF invalid_categories # <<>>
                       THEN <<IssueInvalid, IssueWatch>> ELSE <<>>
         IN  ValidationResult(Len(issues) = 0, issues,
                              list_of_set(invalid_categories))

\* the local validator with the watch note left out
validate_local_one_issue(fitparse, file) ==
    IF ~fitparse THEN ValidationResult(TRUE, <<>>, <<>>)
    ELSE IF ~file.exists \/ ~file.decodes
    THEN ValidationResult(FALSE, <<IssueError>>, <<>>)
    ELSE LET invalid_categories == invalid_category_list(file.steps)
             issues == IF invalid_categories # <<>> THEN <<IssueInvalid>> ELSE <<>>
         IN  ValidationResult(Len(issues) = 0, issues,
                              list_of_set(invalid_categories))

\* the local validator: the body after the fitfiletool branch
validate_local(fitparse, file) ==
    IF ~fitparse THEN ValidationResult(TRUE, <<>>, <<>>)
    ELSE IF ~file.exists \/ ~file.decodes
    THEN ValidationResult(FALSE, <<IssueError>>, <<>>)
    ELSE LET invalid_categories == invalid_category_list(file.steps)
             issues == IF invalid_categories # <<>>
                       THEN <<IssueInvalid, IssueWatch>> ELSE <<>>
         IN  ValidationResult(Len(issues) = 0, issues,
                              list_of_set(invalid_categories))

\* fitfiletool's validator, by its contract: a ValidationResult with the
\* out-of-range categories, two issues for them, one issue for a file it
\* cannot parse; it never raises.
fitfiletool_validate_fit_file(file) ==
    LET r == validate_local(TRUE, file)
    IN  [valid |-> r.valid, issues |-> r.issues,
         has_invalid_categories |-> TRUE,
         invalid_categories |-> r.invalid_categories]

\* Mac: the key 'invalid_categories' is added when the result lacks it;
\* Windows: result.get('invalid_categories', []).  The same value either way.
validate_fit_file(fitfiletool, fitparse, file) ==
    IF fitfiletool
    THEN LET result == fitfiletool_validate_fit_file(file)
         IN  ValidationResult(result.valid, result.issues,
                 IF result.has_invalid_categories
                 THEN result.invalid_categories ELSE <<>>)
    ELSE validate_local(fitparse, file)

(***************************************************************************)
(* Paths are sequences of tokens: "/" separates components, "." is a dot,  *)
(* any other token is a run of other characters.  <<>> is no path (None).  *)
(***************************************************************************)
NoPath == <<>>

\* p.rfind(c): the last position of c, 0 when there is none
rfind(p, c) ==
    IF \E k \in 1..Len(p) : p[k] = c
    THEN CHOOSE k \in 1..Len(p) : p[k] = c /\ \A j \in (k + 1)..Len(p) : p[j] # c
    ELSE 0

\* splitext without the rule for leading dots
splitext_dot_any(p) ==
    LET sepIndex == rfind(p, "/")
        dotIndex == rfind(p, ".")
    IN  IF dotIndex > sepIndex THEN dotIndex ELSE 0

\* os.path.splitext: the position of the dot that starts the extension,
\* 0 when the path has none (leading dots of the last component are skipped)
splitext_dot(p) ==
    LET sepIndex == rfind(p, "/")
        dotIndex == rfind(p, ".")
    IN  IF dotIndex > sepIndex
           /\ \E k \in (sepIndex + 1)..(dotIndex - 1) : p[k] # "."
        THEN dotIndex ELSE 0

\* f"{base}_repaired{ext}"
repaired_path(p) ==
    LET d    == splitext_dot(p)
        base == IF d = 0 THEN p ELSE SubSeq(p, 1, d - 1)
        ext  == IF d = 0 THEN <<>> ELSE SubSeq(p, d, Len(p))
    IN  base \o <<"_repaired">> \o ext

(***************************************************************************)
(* repair_fit_file: the parsed model is flattened to the builder's input,  *)
(* built and written next to the input.  A reps value is an int or a       *)
(* string; a string is kept as its characters.                             *)
(***************************************************************************)
RepsInt(k) == [kind |-> "int", n |-> k, chars |-> <<>>]
RepsStr(cs) == [kind |-> "str", n |-> 0, chars |-> cs]

RECURSIVE IntChars(_)
\* the characters of str(n)
IntChars(k) ==
    IF k < 10 THEN <<Digit(k)>> ELSE Append(IntChars(k \div 10), Digit(k % 10))

\* f"{dist/1000:.1f}km" (no distance of the model lies halfway between
\* two tenths of a kilometre)
km_chars(dist) ==
    LET tenths == (dist + 50) \div 100
    IN  IntChars(tenths \div 10) \o <<".", Digit(tenths % 10), "k", "m">>

\* the reps of one step with the numbers formatted without their unit
flatten_reps_no_unit(step) ==
    IF TruthyI(step.reps) THEN RepsInt(step.reps)
    ELSE IF TruthyI(step.distance) THEN RepsStr(IntChars(step.distance))
    ELSE IF TruthyI(step.duration) THEN RepsStr(IntChars(step.duration))
    ELSE RepsInt(10)

\* the reps of one step: "Determine reps/duration"
flatten_reps(step) ==
    IF TruthyI(step.reps) THEN RepsInt(step.reps)
    ELSE IF TruthyI(step.distance)
    THEN IF step.distance >= 1000 THEN RepsStr(km_chars(step.distance))
         ELSE RepsStr(Append(IntChars(step.distance), "m"))
    ELSE IF TruthyI(step.duration) THEN RepsStr(Append(IntChars(step.duration), "s"))
    ELSE RepsInt(10)

flatten_step(step) ==
    [name |-> Get(step.name, "Exercise"), reps |-> flatten_reps(step),
     sets |-> GetI(step.sets, 1)]

\* the workout dictionary built from workout_data
flatten_workout(model) ==
    [title |-> model.name,
     exercises |-> [k \in 1..Len(model.steps) |-> flatten_step(model.steps[k])]]

(***************************************************************************)
(* build_fit_workout of amakaflow_fitfiletool, by its contract: one        *)
(* workout_step message per exercise with a category of the canonical      *)
(* lookup table, the duration chosen by the shape of reps, a repeat marker *)
(* after an exercise with sets > 1; BuildError for a reps value of no      *)
(* recognised shape.                                                       *)
(***************************************************************************)
IsDigit(c) == c \in {"0", "1", "2", "3", "4", "5", "6", "7", "8", "9"}
DigitVal(c) == CHOOSE d \in 0..9 : Digit(d) = c

RECURSIVE chars_int(_)
\* int(s) of a string of digits
chars_int(cs) ==
    IF cs = <<>> THEN 0
    ELSE chars_int(SubSeq(cs, 1, Len(cs) - 1)) * 10 + DigitVal(cs[Len(cs)])

all_digits(cs) == cs # <<>> /\ \A k \in 1..Len(cs) : IsDigit(cs[k])

\* the duration a reps value encodes: [kind, value]; kind "error" when the
\* value has none of the three shapes
reps_duration(reps) ==
    LET cs == reps.chars
        n  == Len(cs)
    IN  IF reps.kind = "int" THEN [kind |-> "reps", value |-> reps.n]
        ELSE IF n >= 5 /\ cs[n] = "m" /\ cs[n - 1] = "k" /\ cs[n - 3] = "."
                /\ IsDigit(cs[n - 2]) /\ all_digits(SubSeq(cs, 1, n - 4))
        THEN [kind |-> "distance",
              value |-> chars_int(SubSeq(cs, 1, n - 4)) * 1000
                        + DigitVal(cs[n - 2]) * 100]
        ELSE IF n >= 2 /\ cs[n] = "m" /\ all_digits(SubSeq(cs, 1, n - 1))
        THEN [kind |-> "distance", value |-> chars_int(SubSeq(cs, 1, n - 1))]
        ELSE IF n >= 2 /\ cs[n] = "s" /\ all_digits(SubSeq(cs, 1, n - 1))
        THEN [kind |-> "time", value |-> chars_int(SubSeq(cs, 1, n - 1))]
        ELSE [kind |-> "error", value |-> 0]

\* GarminExerciseLookup: the canonical category of an exercise name
lookup_category(name) ==
    CASE name = "Squat" -> 28
      [] name = "Lunge" -> 17
      [] OTHER          -> 29

\* the workout_step message of one exercise
built_step(ex) ==
    LET d == reps_duration(ex.reps)
    IN  [NoFields EXCEPT
          !.wkt_step_name = ex.name,
          !.exercise_category = PyInt(lookup_category(ex.name)),
          !.intensity = PyStr("active"),
          !.duration_type = PyStr(d.kind),
          !.duration_reps = IF d.kind = "reps" THEN d.value ELSE NoInt,
          !.duration_time = IF d.kind = "time" THEN d.value ELSE NoInt,
          !.duration_distance = IF d.kind = "distance" THEN d.value ELSE NoInt]

RECURSIVE built_steps(_)
built_steps(exercises) ==
    IF exercises = <<>> THEN <<>>
    ELSE LET ex == Head(exercises)
         IN  <<built_step(ex)>>
             \o (IF ex.sets > 1
                 THEN << [NoFields EXCEPT
                            !.duration_type = PyStr("repeat_until_steps_cmplt"),
                            !.repeat_steps = ex.sets - 1] >>
                 ELSE <<>>)
             \o built_steps(Tail(exercises))

\* [raised, file]
build_fit_workout(wk) ==
    IF \E k \in 1..Len(wk.exercises) :
          reps_duration(wk.exercises[k].reps).kind = "error"
    THEN [raised |-> TRUE, file |-> NoFile]
    ELSE [raised |-> FALSE,
          file |-> [NoFile EXCEPT !.exists = TRUE, !.header = FitHeader,
                       !.decodes = TRUE, !.wkt_name = wk.title,
                       !.sport = PyStr("training"),
                       !.sub_sport = PyStr("strength_training"),
                       !.steps = built_steps(wk.exercises)]]

RepairError == "Error repairing file"
RepairUnavailable == "amakaflow-fitfiletool not available"

\* what open(new_filepath, 'wb') and f.write leave behind when they fail:
\* nothing, or a file that was created and not filled
TruncatedFile == [NoFile EXCEPT !.exists = TRUE]

\* the returns of repair_fit_file without the try: an error propagates
RepairRaise(path, error, wk, dsk) ==
    [result |-> [called |-> TRUE, raised |-> error = RepairError,
                 new_filepath |-> path,
                 error |-> IF error = RepairError THEN NoneStr ELSE error],
     workout |-> wk, disk |-> dsk]

RepairReturn(path, error, wk, dsk) ==
    [result |-> [called |-> TRUE, raised |-> FALSE, new_filepath |-> path,
                 error |-> error],
     workout |-> wk, disk |-> dsk]

\* repair_fit_file(filepath, workout_data) on the disk dsk.  io is what the
\* environment does to the call: "ok"; "build_fails": GarminExerciseLookup()
\* or build_fit_workout raises; "open_fails" / "write_fails": the with block.
\* [result, workout, disk]
repair_fit_file(fitfiletool, path, model, dsk, wk0, io) ==
    IF ~fitfiletool THEN RepairReturn(NoPath, RepairUnavailable, wk0, dsk)
    ELSE IF model.kind = "None"        \* None.get raises AttributeError
    THEN RepairReturn(NoPath, RepairError, wk0, dsk)
    ELSE LET wk    == flatten_workout(model)
             built == build_fit_workout(wk)
             new   == repaired_path(path)
         IN  IF built.raised \/ io = "build_fails"
             THEN RepairReturn(NoPath, RepairError, wk, dsk)
             ELSE IF io = "open_fails" THEN RepairReturn(NoPath, RepairError, wk, dsk)
             ELSE IF io = "write_fails"
             THEN RepairReturn(NoPath, RepairError, wk, (new :> TruncatedFile) @@ dsk)
             ELSE RepairReturn(new, NoneStr, wk, (new :> built.file) @@ dsk)

(***************************************************************************)
(* parse_fit_file: fitfiletool's parser, then fitparse, then the basic     *)
(* parser.                                                                 *)
(***************************************************************************)
\* fitfiletool's parser (it uses fitparse internally): the flat step list
\* the preview consumes, or None.  ok: it returned a model.
fitfiletool_parse_fit_file(file, ok) ==
    LET m == parse_fit_with_fitparse_mac(file)
    IN  IF ok /\ m.kind = "model" /\ m.parser = "fitparse"
        THEN [m EXCEPT !.parser = "fitfiletool"] ELSE NoneModel

parse_fit_file(plat, fitfiletool, fitparse, file, ok) ==
    LET result == IF fitfiletool THEN fitfiletool_parse_fit_file(file, ok)
                  ELSE NoneModel
    IN  IF result.kind # "None" THEN result
        ELSE IF fitparse THEN parse_fit_with_fitparse(plat, file)
        ELSE parse_fit_basic(plat, file)

(***************************************************************************)
(* The workout_step messages the specifications draw files from.           *)
(***************************************************************************)
StepSquat ==
    [NoFields EXCEPT !.wkt_step_name = "Squat", !.duration_type = PyStr("reps"),
        !.duration_reps = 10, !.intensity = PyStr("active"),
        !.exercise_category = PyInt(28), !.exercise_name = 0]

StepRun ==
    [NoFields EXCEPT !.duration_type = PyStr("distance"),
        !.duration_distance = 1240, !.intensity = PyStr("active"),
        !.notes = "Z2"]

StepRest ==
    [NoFields EXCEPT !.duration_type = PyStr("time"), !.duration_time = 10,
        !.intensity = PyStr("rest")]

StepWarmupNotes ==
    [NoFields EXCEPT !.duration_type = PyStr("time"), !.duration_time = 300,
        !.intensity = PyStr("warmup"), !.notes = "easy"]

StepWarmupNamed ==
    [NoFields EXCEPT !.wkt_step_name = "Jog", !.duration_type = PyStr("open"),
        !.intensity = PyStr("warmup")]

\* a repeat marker: repeat the steps from duration_step on n more times
StepMarker(n) ==
    [NoFields EXCEPT !.duration_type = PyStr("repeat_until_steps_cmplt"),
        !.repeat_steps = n]

\* the roles of a message in the raw stream, read from its field values
RawIsMarker(f) ==
    (Truthy(f.duration_type) /\ is_repeat_type(str(f.duration_type)))
    \/ TruthyI(f.repeat_steps)
RawMarkerCount(f) == IF f.repeat_steps = NoInt THEN 0 ELSE f.repeat_steps
RawIsRest(f) ==
    ~RawIsMarker(f) /\ f.intensity \in {PyStr("rest"), PyStr("1"), PyInt(1)}
RawIsWarmup(f) ==
    ~RawIsMarker(f) /\ f.intensity \in {PyStr("warmup"), PyStr("2"), PyInt(2)}
RawIsExercise(f) == ~RawIsMarker(f) /\ ~RawIsRest(f) /\ ~RawIsWarmup(f)

\* all sequences over S of length at most n
SeqsUpTo(S, n) == UNION {[1..k -> S] : k \in 0..n}

\* a readable workout file with the given workout and workout_step messages
WorkoutFile(sport, sub_sport, steps) ==
    [NoFile EXCEPT !.exists = TRUE, !.header = FitHeader, !.decodes = TRUE,
        !.wkt_name = "Legs", !.sport = sport, !.sub_sport = sub_sport,
        !.steps = steps]

InputPath == <<"workout", ".", "fit">>

(***************************************************************************)
(* Compressed timestamps of the binary reader: a running base, the last    *)
(* 5-bit offset, and the offsets read and timestamps resolved so far.      *)
(***************************************************************************)
NoReader == [T |-> 0, base |-> 0, offset |-> 0, offsets |-> <<>>, timestamps |-> <<>>]

\* a reader that resolves the offset against the base without wraparound
compressed_timestamp_no_wrap(r, off) ==
    [r EXCEPT !.offset = off, !.offsets = Append(@, off),
              !.timestamps = Append(@, r.base + off)]

\* a new offset below the previous one moves the base on by 32 seconds
compressed_timestamp(r, off) ==
    LET base == IF off < r.offset THEN r.base + 32 ELSE r.base
    IN  [r EXCEPT !.base = base, !.offset = off, !.offsets = Append(@, off),
                  !.timestamps = Append(@, base + off)]

\* nothing handed to the builder yet / no repair call made yet
NoWorkout == [title |-> "", exercises |-> <<>>]
\* no step loop is being executed
NoLoop == [name |-> "none", i |-> 0, out |-> <<>>, consumed |-> <<>>, from |-> <<>>]

\* the specification does not open the window
NoGui == [window |-> "none"]

\* the monitor thread has not been started
NoMonitor == [at |-> "none"]

NoRepair ==
    [called |-> FALSE, raised |-> FALSE, new_filepath |-> NoPath, error |-> NoneStr]

(***************************************************************************)
(* SpecPreview: parse_fit_with_fitparse applied to a file, then (Mac)      *)
(* process_steps_for_preview applied to the steps of the model.            *)
(***************************************************************************)
MaxPreviewSteps == 4

PreviewSteps ==
    {StepSquat, StepRun, StepRest, StepWarmupNotes, StepWarmupNamed,
     StepMarker(2), StepMarker(0)}

PreviewSports ==
    { <<PyStr("training"), PyAbsent>>, <<PyStr("running"), PyAbsent>>,
      <<PyAbsent, PyStr("treadmill")>> }

InitPreview ==
    /\ platform \in {"mac", "win"}
    /\ FITFILETOOL_AVAILABLE = FALSE
    /\ FITPARSE_AVAILABLE = TRUE
    /\ filepath = InputPath
    /\ \E sp \in PreviewSports, st \in SeqsUpTo(PreviewSteps, MaxPreviewSteps) :
          disk = [p \in {InputPath} |-> WorkoutFile(sp[1], sp[2], st)]
    /\ workout_data = <<>>
    /\ processed = <<>>
    /\ validation = <<>>
    /\ workout = NoWorkout
    /\ repair = NoRepair
    /\ reader = NoReader
    /\ loop = NoLoop
    /\ gui = NoGui
    /\ monitor = NoMonitor
    /\ pc = "start"

\* self.parse_fit_with_fitparse(filepath)
ParseWithFitparse ==
    /\ pc \in {"start", "built"}
    /\ workout_data' = (filepath :> parse_fit_with_fitparse(platform, disk[filepath]))
    /\ pc' = "parsed"
    /\ UNCHANGED <<loop, gui, monitor, reader, platform, FITFILETOOL_AVAILABLE, FITPARSE_AVAILABLE, disk,
                   filepath, processed, validation, workout, repair>>

\* show_fit_preview: self.process_steps_for_preview(workout_data['steps'])
ProcessStepsForPreview ==
    /\ pc = "parsed"
    /\ platform = "mac"
    /\ workout_data[filepath].kind = "model"
    /\ processed' = process_steps_for_preview(workout_data[filepath].steps)
    /\ pc' = "shown"
    /\ UNCHANGED <<loop, gui, monitor, reader, platform, FITFILETOOL_AVAILABLE, FITPARSE_AVAILABLE, disk,
                   filepath, workout_data, validation, workout, repair>>

NextPreview == ParseWithFitparse \/ ProcessStepsForPreview

SpecPreview == InitPreview /\ [][NextPreview]_vars

\* the positions k of the raw stream where an exercise, a rest and a
\* repeat marker follow one another
RawTriples(file) ==
    {k \in 1..(Len(file.steps) - 2) :
        /\ RawIsExercise(file.steps[k])
        /\ RawIsRest(file.steps[k + 1])
        /\ RawIsMarker(file.steps[k + 2])}

\* the display rows j that open a block for the triple at raw position k
BlocksOf(file, k) ==
    {j \in 1..(Len(processed) - 2) :
        /\ processed[j].display_type = "repeat_header"
        /\ processed[j].repeat_count = RawMarkerCount(file.steps[k + 2]) + 1
        /\ processed[j + 1].display_type = "nested_exercise"
        /\ processed[j + 1].step.idx = k
        /\ processed[j + 2].display_type = "nested_rest"
        /\ processed[j + 2].step.idx = k + 1}

\* the display rows made from the raw step at position k
RowsOf(k) == {j \in 1..Len(processed) : processed[j].step.idx = k}

Folded(file, k) ==
    /\ workout_data[filepath].kind = "model"
    /\ workout_data[filepath].parser = "fitparse"
    /\ Cardinality(BlocksOf(file, k)) = 1
    /\ Cardinality(RowsOf(k)) = 1
    /\ Cardinality(RowsOf(k + 1)) = 1
    /\ RowsOf(k + 2) = {}

\* C1: on the Mac, once the preview rows are made, every exercise, rest,
\* repeat marker run of the raw stream is one repeat block with count n + 1
\* wrapping the exercise and the rest, and none of the three is a row of
\* its own.  (Stated for every file; the code breaks it.)
C1_FoldOriginal ==
    pc = "shown" => \A k \in RawTriples(disk[filepath]) : Folded(disk[filepath], k)

\* the same, for the files whose model the fitparse parser returned
C1_FoldWhenParsed ==
    (pc = "shown" /\ workout_data[filepath].parser = "fitparse")
        => \A k \in RawTriples(disk[filepath]) : Folded(disk[filepath], k)

C1_Witness ==
    /\ pc = "shown"
    /\ workout_data[filepath].parser = "fitparse"
    /\ \E k \in RawTriples(disk[filepath]) :
          k > 1 /\ RawMarkerCount(disk[filepath].steps[k + 2]) = 2

\* the entries of the parsed model made from the raw step at position k
EntriesOf(k) ==
    LET model == workout_data[filepath]
    IN  {j \in 1..Len(model.steps) : model.steps[j].idx = k}

\* C4: in a cardio workout (sport = running) every step with intensity
\* warmup gives one step of the model named "Warm Up" with step_type
\* "warmup", whatever its notes or step name.
C4_WarmUpOriginal ==
    (pc # "start" /\ wd_sport(disk[filepath]) = "running") =>
        \A k \in 1..Len(disk[filepath].steps) :
            RawIsWarmup(disk[filepath].steps[k]) =>
                /\ workout_data[filepath].kind = "model"
                /\ \E j \in EntriesOf(k) :
                      /\ workout_data[filepath].steps[j].name = "Warm Up"
                      /\ workout_data[filepath].steps[j].step_type = "warmup"

(***************************************************************************)
(* Spec: the operations of show_fit_preview on one file: parse_fit_file,   *)
(* validate_fit_file, repair_fit_file (do_repair), and validate_fit_file   *)
(* on the repaired file.                                                   *)
(***************************************************************************)
MaxSteps == 3

StepOut45 ==
    [NoFields EXCEPT !.wkt_step_name = "Thruster", !.duration_type = PyStr("reps"),
        !.duration_reps = 8, !.intensity = PyStr("active"),
        !.exercise_category = PyInt(45)]

StepOut33 ==
    [NoFields EXCEPT !.duration_type = PyStr("reps"), !.duration_reps = 12,
        !.exercise_category = PyInt(33)]

StepEdge32 ==
    [NoFields EXCEPT !.duration_type = PyStr("time"), !.duration_time = 30,
        !.intensity = PyStr("active"), !.exercise_category = PyInt(32)]

\* fitparse decodes a category of the profile to its name
StepLunge ==
    [NoFields EXCEPT !.duration_type = PyStr("reps"), !.duration_reps = 10,
        !.intensity = PyStr("active"), !.exercise_category = PyStr("lunge"),
        !.exercise_name = 0]

MainSteps ==
    {StepSquat, StepOut45, StepOut33, StepEdge32, StepLunge, StepRest, StepMarker(2)}

\* a file that is no FIT file, and a workout file cut short after its step
GarbageFile == [NoFile EXCEPT !.exists = TRUE]
CutShortFile ==
    [WorkoutFile(PyStr("training"), PyAbsent, <<StepOut45>>) EXCEPT !.decodes = FALSE]

\* a treadmill workout whose workout message carries no sport
SportlessFile == WorkoutFile(PyAbsent, PyStr("treadmill"), <<StepRun>>)

MainFiles ==
    {NoFile, GarbageFile, CutShortFile, SportlessFile}
    \cup {WorkoutFile(PyStr("training"), PyAbsent, st) :
             st \in SeqsUpTo(MainSteps, MaxSteps)}

IoOutcomes == {"ok", "build_fails", "open_fails", "write_fails"}

Init ==
    /\ platform \in {"mac", "win"}
    /\ FITFILETOOL_AVAILABLE \in BOOLEAN
    /\ FITPARSE_AVAILABLE \in BOOLEAN
    /\ filepath = InputPath
    /\ \E f \in MainFiles : disk = (InputPath :> f)
    /\ workout_data = <<>>
    /\ processed = <<>>
    /\ validation = <<>>
    /\ workout = NoWorkout
    /\ repair = NoRepair
    /\ reader = NoReader
    /\ loop = NoLoop
    /\ gui = NoGui
    /\ monitor = NoMonitor
    /\ pc = "start"

\* workout_data = self.parse_fit_file(filepath)
ParseFile ==
    /\ pc = "start"
    /\ \E ok \in BOOLEAN :
          workout_data' = (filepath :>
              parse_fit_file(platform, FITFILETOOL_AVAILABLE, FITPARSE_AVAILABLE,
                             disk[filepath], ok))
    /\ pc' = "parsed"
    /\ UNCHANGED <<loop, gui, monitor, reader, platform, FITFILETOOL_AVAILABLE, FITPARSE_AVAILABLE, disk,
                   filepath, processed, validation, workout, repair>>

\* validation = self.validate_fit_file(filepath)
Validate ==
    /\ pc = "parsed"
    /\ validation' = (filepath :>
          validate_fit_file(FITFILETOOL_AVAILABLE, FITPARSE_AVAILABLE, disk[filepath]))
    /\ pc' = "validated"
    /\ UNCHANGED <<loop, gui, monitor, reader, platform, FITFILETOOL_AVAILABLE, FITPARSE_AVAILABLE, disk,
                   filepath, workout_data, processed, workout, repair>>

\* new_file, error = self.repair_fit_file(filepath, workout_data)
Repair ==
    /\ pc \in {"parsed", "validated"}
    /\ \E io \in IoOutcomes :
          LET r == repair_fit_file(FITFILETOOL_AVAILABLE, filepath,
                                   workout_data[filepath], disk, workout, io)
          IN  /\ repair' = r.result
              /\ workout' = r.workout
              /\ disk' = r.disk
    /\ pc' = "repaired"
    /\ UNCHANGED <<loop, gui, monitor, reader, platform, FITFILETOOL_AVAILABLE, FITPARSE_AVAILABLE, filepath,
                   workout_data, processed, validation>>

\* self.validate_fit_file(new_file) on the file a repair returned
ValidateRepaired ==
    /\ pc = "repaired"
    /\ repair.new_filepath # NoPath
    /\ validation' = (repair.new_filepath :>
          validate_fit_file(FITFILETOOL_AVAILABLE, FITPARSE_AVAILABLE,
                            disk[repair.new_filepath])) @@ validation
    /\ pc' = "revalidated"
    /\ UNCHANGED <<loop, gui, monitor, reader, platform, FITFILETOOL_AVAILABLE, FITPARSE_AVAILABLE, disk,
                   filepath, workout_data, processed, workout, repair>>

Next == ParseFile \/ Validate \/ Repair \/ ValidateRepaired

Spec == Init /\ [][Next]_vars

(***************************************************************************)
(* Properties of validate_fit_file and repair_fit_file under Spec.         *)
(***************************************************************************)
\* the integer exercise_category values of the file's workout_step
\* messages that lie outside [0, 32]
OutOfRange(file) ==
    {file.steps[k].exercise_category.n : k \in
        {j \in 1..Len(file.steps) :
            /\ file.steps[j].exercise_category.t = "int"
            /\ (file.steps[j].exercise_category.n < 0
                \/ file.steps[j].exercise_category.n > 32)}}

Elements(xs) == {xs[k] : k \in 1..Len(xs)}
NoDuplicates(xs) == \A i, j \in 1..Len(xs) : i # j => xs[i] # xs[j]

\* which validator validate_fit_file runs: the one of this program (fitparse
\* installed, fitfiletool not), none, or fitfiletool's
LocalValidator == ~FITFILETOOL_AVAILABLE /\ FITPARSE_AVAILABLE
NoValidator == ~FITFILETOOL_AVAILABLE /\ ~FITPARSE_AVAILABLE
Parses(file) == file.exists /\ file.decodes

ReportsOutOfRange(p) ==
    /\ NoDuplicates(validation[p].invalid_categories)
    /\ Elements(validation[p].invalid_categories) = OutOfRange(disk[p])

ReportsNothing(p) ==
    /\ validation[p].valid
    /\ validation[p].issues = <<>>
    /\ validation[p].invalid_categories = <<>>

\* C2: for every validated file, invalid_categories holds, each once,
\* exactly the integer categories of its steps outside [0, 32].  (Stated
\* for every file, with fitfiletool not installed: violated.)
C2_InvalidCategoriesOriginal ==
    \A p \in DOMAIN validation : ~FITFILETOOL_AVAILABLE => ReportsOutOfRange(p)

\* C2 as it holds: the local validator reports exactly those categories for
\* a file that parses; for a file that does not parse, and with no
\* validator installed, invalid_categories is empty.
C2_InvalidCategories ==
    \A p \in DOMAIN validation :
        /\ (LocalValidator /\ Parses(disk[p])) => ReportsOutOfRange(p)
        /\ (LocalValidator /\ ~Parses(disk[p]))
              => validation[p].invalid_categories = <<>>
        /\ NoValidator => validation[p].invalid_categories = <<>>

C2_Witness ==
    /\ filepath \in DOMAIN validation
    /\ LocalValidator
    /\ disk[filepath].steps = <<StepOut45, StepLunge, StepOut45>>
    /\ validation[filepath].invalid_categories = <<45>>

\* the repaired file was written and validated
Revalidated == pc = "revalidated" /\ repair.new_filepath \in DOMAIN validation

FlagsOutOfRange(p) ==
    /\ ~validation[p].valid
    /\ OutOfRange(disk[p]) \subseteq Elements(validation[p].invalid_categories)

C6_RepairIdempotentOriginal ==
    (/\ Revalidated
     /\ filepath \in DOMAIN validation
     /\ validation[filepath].valid
     /\ workout_data[filepath].parser = "fitparse")
        => /\ validation[repair.new_filepath].valid
           /\ Len(disk[repair.new_filepath].steps) = Len(disk[filepath].steps)

ReportsParseError(p) ==
    /\ validation[p].valid = FALSE
    /\ validation[p].issues = <<IssueError>>
    /\ validation[p].invalid_categories = <<>>

ValidIffNoIssues(p) == validation[p].valid <=> validation[p].issues = <<>>
OnlyCategoryIssues(p) ==
    Parses(disk[p]) => validation[p].issues \in {<<>>, <<IssueInvalid, IssueWatch>>}

\* C8: in every result valid is true exactly when issues is empty; a file
\* with out-of-range categories has exactly the two issues; a file that
\* parses has no other issue.  (Stated for every file, with fitfiletool
\* not installed: violated.)
C8_ValidIffNoIssuesOriginal ==
    \A p \in DOMAIN validation :
        ~FITFILETOOL_AVAILABLE =>
            /\ ValidIffNoIssues(p)
            /\ OutOfRange(disk[p]) # {}
                  => validation[p].issues = <<IssueInvalid, IssueWatch>>
            /\ OnlyCategoryIssues(p)

\* C8 as it holds: the two issues are there when the local validator runs
\* and the file parses; with no validator installed issues is empty.
C8_ValidIffNoIssues ==
    \A p \in DOMAIN validation :
        ~FITFILETOOL_AVAILABLE =>
            /\ ValidIffNoIssues(p)
            /\ (LocalValidator /\ Parses(disk[p]) /\ OutOfRange(disk[p]) # {})
                  => validation[p].issues = <<IssueInvalid, IssueWatch>>
            /\ OnlyCategoryIssues(p)
            /\ NoValidator => validation[p].issues = <<>>

C8_Witness ==
    /\ filepath \in DOMAIN validation
    /\ LocalValidator
    /\ OutOfRange(disk[filepath]) = {33, 45}
    /\ validation[filepath].issues = <<IssueInvalid, IssueWatch>>
    /\ ~validation[filepath].valid

\* C10: a call of repair_fit_file does not raise and returns either a new
\* path and no error, or no path and a non-empty error message.
C10_RepairReturnsOneOfTwo ==
    repair.called =>
        /\ ~repair.raised
        /\ \/ repair.new_filepath # NoPath /\ repair.error = NoneStr
           \/ repair.new_filepath = NoPath /\ repair.error \notin {NoneStr, ""}

\* a write that failed after the file was created
C10_Witness ==
    /\ repair.called
    /\ FITFILETOOL_AVAILABLE
    /\ repair.new_filepath = NoPath
    /\ repair.error = RepairError
    /\ repaired_path(filepath) \in DOMAIN disk

(***************************************************************************)
(* SpecRoundTrip: a simplified workout is built, the file is parsed by     *)
(* parse_fit_with_fitparse, and repair_fit_file flattens the parsed model. *)
(***************************************************************************)
MaxExercises == 2

SimpleReps ==
    {RepsInt(10), RepsStr(<<"3", "0", "s">>), RepsStr(<<"1", ".", "2", "k", "m">>),
     RepsStr(<<"4", "0", "0", "m">>), RepsStr(<<"1", "2", "4", "0", "m">>),
     RepsStr(<<"x">>)}

SimpleExercises ==
    [name : {"Squat", "lunge"}, reps : SimpleReps, sets : {1, 3}]

InitRoundTrip ==
    /\ platform \in {"mac", "win"}
    /\ FITFILETOOL_AVAILABLE = TRUE
    /\ FITPARSE_AVAILABLE = TRUE
    /\ filepath = InputPath
    /\ disk = (InputPath :> NoFile)
    /\ workout_data = <<>>
    /\ processed = <<>>
    /\ validation = <<>>
    /\ \E ex \in SeqsUpTo(SimpleExercises, MaxExercises) :
          workout = [title |-> "Legs", exercises |-> ex]
    /\ repair = NoRepair
    /\ reader = NoReader
    /\ loop = NoLoop
    /\ gui = NoGui
    /\ monitor = NoMonitor
    /\ pc = "new"

\* fit_bytes = build_fit_workout(workout, use_lap_button=False), written
\* to filepath
BuildWorkout ==
    /\ pc = "new"
    /\ LET built == build_fit_workout(workout)
       IN  IF built.raised
           THEN pc' = "build_failed" /\ UNCHANGED disk
           ELSE pc' = "built" /\ disk' = (filepath :> built.file) @@ disk
    /\ UNCHANGED <<loop, gui, monitor, reader, platform, FITFILETOOL_AVAILABLE, FITPARSE_AVAILABLE, filepath,
                   workout_data, processed, validation, workout, repair>>

NextRoundTrip == BuildWorkout \/ ParseWithFitparse \/ Repair

SpecRoundTrip == InitRoundTrip /\ [][NextRoundTrip]_vars

\* the same names (up to title-casing), rep / duration / distance values
\* and set counts
SameExercises(a, b) ==
    /\ Len(a) = Len(b)
    /\ \A k \in 1..Len(a) :
          /\ title(a[k].name) = title(b[k].name)
          /\ reps_duration(a[k].reps) = reps_duration(b[k].reps)
          /\ a[k].sets = b[k].sets

\* C5: the workout repair_fit_file flattens from the parsed file has the
\* exercises of the workout the file was built from.
C5_RoundTripOriginal ==
    [][(pc = "parsed" /\ pc' = "repaired")
          => SameExercises(workout.exercises, workout'.exercises)]_vars

(***************************************************************************)
(* SpecRepairPath: repair_fit_file on paths of every shape, next to a      *)
(* file that is not part of the call.                                      *)
(***************************************************************************)
MaxPathLen == 3

PathTokens == {"w", ".", "/"}
Paths == SeqsUpTo(PathTokens, MaxPathLen) \ {<<>>}
BystanderPath == <<"other", ".", "fit">>

InitRepairPath ==
    /\ platform \in {"mac", "win"}
    /\ FITFILETOOL_AVAILABLE \in BOOLEAN
    /\ FITPARSE_AVAILABLE = TRUE
    /\ filepath \in Paths
    /\ \E f \in {NoFile, WorkoutFile(PyStr("training"), PyAbsent, <<StepOut45>>)} :
          disk = (filepath :> f)
                 @@ (BystanderPath :> WorkoutFile(PyStr("training"), PyAbsent,
                                                  <<StepSquat>>))
    /\ workout_data = <<>>
    /\ processed = <<>>
    /\ validation = <<>>
    /\ workout = NoWorkout
    /\ repair = NoRepair
    /\ reader = NoReader
    /\ loop = NoLoop
    /\ gui = NoGui
    /\ monitor = NoMonitor
    /\ pc = "start"

NextRepairPath == ParseFile \/ Repair

SpecRepairPath == InitRepairPath /\ [][NextRepairPath]_vars

\* position d holds the dot of the extension: no dot or separator follows
\* it, and its component has a character that is no dot before it
ExtensionAt(p, d) ==
    /\ p[d] = "."
    /\ \A j \in (d + 1)..Len(p) : p[j] \notin {".", "/"}
    /\ \E k \in 1..(d - 1) :
          p[k] \notin {".", "/"} /\ \A j \in k..d : p[j] # "/"

\* "_repaired" inserted before the extension of p (at the end without one)
WithRepairedInserted(p) ==
    LET e == IF \E d \in 1..Len(p) : ExtensionAt(p, d)
             THEN CHOOSE d \in 1..Len(p) : ExtensionAt(p, d)
             ELSE Len(p) + 1
    IN  SubSeq(p, 1, e - 1) \o <<"_repaired">> \o SubSeq(p, e, Len(p))

\* C9: a call of repair_fit_file changes no file but the one at the path
\* with "_repaired" inserted before the extension of the input path; that
\* path is not the input path, and the input file is as it was, whether the
\* call succeeds or fails.
C9_WritesOnlyRepairedPath ==
    [][(~repair.called /\ repair'.called) =>
          LET new == WithRepairedInserted(filepath)
          IN  /\ new # filepath
              /\ repair'.new_filepath \in {NoPath, new}
              /\ DOMAIN disk \subseteq DOMAIN disk'
              /\ \A p \in DOMAIN disk' :
                    p # new => p \in DOMAIN disk /\ disk'[p] = disk[p]
              /\ disk'[filepath] = disk[filepath]]_vars

\* a repair of a path with an extension has written its file
C9_Witness ==
    /\ repair.called
    /\ filepath = <<"w", ".", "w">>
    /\ repair.new_filepath = <<"w", "_repaired", ".", "w">>
    /\ disk[repair.new_filepath].exists
    /\ disk[filepath].steps = <<StepOut45>>

(***************************************************************************)
(* Properties of parse_fit_file under Spec.                                *)
(***************************************************************************)
Parsed == filepath \in DOMAIN workout_data

\* C11: parse_fit_file returns None only when the basic parser, the last
\* of the chain, produces no model for the file either; a model of the
\* basic parser is returned only when the fitparse parser was not there to
\* give one.
C11_FallbackChainOriginal ==
    Parsed =>
        /\ workout_data[filepath].kind = "None"
              => parse_fit_basic(platform, disk[filepath]).kind = "None"
        /\ (workout_data[filepath].parser = "basic" /\ FITPARSE_AVAILABLE)
              => ~Parses(disk[filepath])
                 \/ cardio_name_raises(disk[filepath])

\* C12: a call of parse_fit_file does not raise, and for a file that cannot
\* be parsed it returns None or the placeholder model of the basic parser.
C12_ParseNeverRaises ==
    Parsed =>
        /\ workout_data[filepath].kind \in {"model", "None"}
        /\ ~Parses(disk[filepath])
              => \/ workout_data[filepath].kind = "None"
                 \/ workout_data[filepath].parser = "basic"

\* an exception inside the fitparse parser that ended in the basic parser
C12_Witness ==
    /\ Parsed
    /\ platform = "mac" /\ FITPARSE_AVAILABLE
    /\ disk[filepath] = SportlessFile
    /\ workout_data[filepath].kind = "model"
    /\ workout_data[filepath].parser = "basic"

\* C14: no step of the model parse_fit_file returns is a repeat marker.
\* (Stated for the models the fitparse parser of this program returned.)
C14_NoRepeatStepOriginal ==
    (Parsed /\ workout_data[filepath].parser = "fitparse") =>
        \A j \in 1..Len(workout_data[filepath].steps) :
            /\ ~workout_data[filepath].steps[j].is_repeat
            /\ workout_data[filepath].steps[j].step_type # "repeat"

(***************************************************************************)
(* SpecBasic: parse_fit_basic on byte streams with every kind of header.   *)
(***************************************************************************)
MaxTexts == 2

\* printable runs after the header: an exercise-like one and one holding a
\* keyword
BasicTexts == {[s |-> "Bench Press", kw |-> FALSE], [s |-> "Leg workout", kw |-> TRUE]}

\* sizes around the 12- and 14-byte headers, header-size bytes around 12;
\* data[8:12] of a stream of fewer than 12 bytes is shorter than ".FIT"
BasicHeaders ==
    {h \in [size : {0, 11, 12, 13, 14, 40}, header_size : {0, 11, 12, 14},
            signature : {".FIT", "RIFF", ".FI"}] :
        /\ h.size = 0 => h.header_size = 0
        /\ h.size < 12 <=> h.signature = ".FI"}

BasicFiles ==
    {NoFile}
    \cup {[NoFile EXCEPT !.exists = TRUE, !.header = h, !.texts = tx] :
            h \in BasicHeaders, tx \in SeqsUpTo(BasicTexts, MaxTexts)}

InitBasic ==
    /\ platform \in {"mac", "win"}
    /\ FITFILETOOL_AVAILABLE = FALSE
    /\ FITPARSE_AVAILABLE = FALSE
    /\ filepath = InputPath
    /\ \E f \in BasicFiles :
          /\ f.texts # <<>> => f.header.size = 40
          /\ disk = (InputPath :> f)
    /\ workout_data = <<>>
    /\ processed = <<>>
    /\ validation = <<>>
    /\ workout = NoWorkout
    /\ repair = NoRepair
    /\ reader = NoReader
    /\ loop = NoLoop
    /\ gui = NoGui
    /\ monitor = NoMonitor
    /\ pc = "start"

\* self.parse_fit_basic(filepath)
ParseBasic ==
    /\ pc = "start"
    /\ workout_data' = (filepath :> parse_fit_basic(platform, disk[filepath]))
    /\ pc' = "parsed"
    /\ UNCHANGED <<loop, gui, monitor, reader, platform, FITFILETOOL_AVAILABLE, FITPARSE_AVAILABLE, disk,
                   filepath, processed, validation, workout, repair>>

NextBasic == ParseBasic

SpecBasic == InitBasic /\ [][NextBasic]_vars

BadHeader(h) == h.size < 12 \/ h.header_size < 12 \/ h.signature # ".FIT"

\* C13: the basic parser returns no model for a stream shorter than a FIT
\* header, with a header-size byte below 12, or without ".FIT" in bytes
\* 8..11.
C13_BasicRejectsOriginal ==
    (Parsed /\ disk[filepath].exists /\ BadHeader(disk[filepath].header))
        => workout_data[filepath].kind = "None"

(***************************************************************************)
(* SpecReader: a stream of records with compressed-timestamp headers.      *)
(***************************************************************************)
MaxRecords == 3

\* base timestamps (seconds) and 5-bit offsets at both ends of the range
ReaderBases == {0, 64, 1000000000}
Offsets == {0, 1, 2, 30, 31}

InitReader ==
    /\ platform = "mac"
    /\ FITFILETOOL_AVAILABLE = FALSE
    /\ FITPARSE_AVAILABLE = TRUE
    /\ filepath = InputPath
    /\ disk = (InputPath :> WorkoutFile(PyStr("training"), PyAbsent, <<>>))
    /\ workout_data = <<>>
    /\ processed = <<>>
    /\ validation = <<>>
    /\ workout = NoWorkout
    /\ repair = NoRepair
    /\ \E t \in ReaderBases : reader = [NoReader EXCEPT !.T = t, !.base = t]
    /\ loop = NoLoop
    /\ gui = NoGui
    /\ monitor = NoMonitor
    /\ pc = "start"

\* one record with a compressed-timestamp header
ReadCompressed ==
    /\ Len(reader.timestamps) < MaxRecords
    /\ \E off \in Offsets : reader' = compressed_timestamp(reader, off)
    /\ UNCHANGED <<loop, gui, monitor, platform, FITFILETOOL_AVAILABLE, FITPARSE_AVAILABLE, disk,
                   filepath, workout_data, processed, validation, workout,
                   repair, pc>>

NextReader == ReadCompressed

SpecReader == InitReader /\ [][NextReader]_vars

\* C15: the base runs across the stream: an offset below the previous one
\* adds one 32-second wrap, so offsets 30 then 2 after base T give T + 30
\* and T + 34 (never T + 2), and the timestamps never decrease.
C15_CompressedTimestamps ==
    LET ts == reader.timestamps
        of == reader.offsets
    IN  /\ \A k \in 1..Len(ts) : ts[k] >= reader.T
        /\ \A k \in 2..Len(ts) :
              /\ ts[k] >= ts[k - 1]
              /\ ts[k] - ts[k - 1] =
                    IF of[k] < of[k - 1] THEN 32 + of[k] - of[k - 1]
                    ELSE of[k] - of[k - 1]
        /\ (Len(of) >= 2 /\ of[1] = 30 /\ of[2] = 2)
              => /\ ts[1] = reader.T + 30
                 /\ ts[2] = reader.T + 32 + 2
                 /\ ts[2] > reader.T + 30
                 /\ ts[2] # reader.T + 2

\* offsets 30 then 2 have been read
C15_Witness ==
    /\ Len(reader.offsets) >= 2
    /\ reader.offsets[1] = 30
    /\ reader.offsets[2] = 2

(***************************************************************************)
(* Repeat markers outside the exercise, rest, marker pattern (SpecPreview). *)
(***************************************************************************)
\* the markers of the raw stream that do not end an exercise, rest, marker
\* run
LoneMarkers(file) ==
    {k \in 1..Len(file.steps) :
        RawIsMarker(file.steps[k]) /\ (k - 2) \notin RawTriples(file)}

\* the raw steps before position k that are neither a rest nor a marker
Emitted(file, k) ==
    {j \in 1..(k - 1) : ~RawIsRest(file.steps[j]) /\ ~RawIsMarker(file.steps[j])}

Max(S) == CHOOSE x \in S : \A y \in S : y <= x

\* the markers whose most recent step that is neither rest nor marker is j
MarkersOn(file, j) ==
    {k \in 1..Len(file.steps) :
        /\ RawIsMarker(file.steps[k])
        /\ Emitted(file, k) # {}
        /\ Max(Emitted(file, k)) = j}

\* the parse is over and, on the Mac, the rows of the preview are made
Settled ==
    /\ pc = (IF platform = "mac" THEN "shown" ELSE "parsed")
    /\ workout_data[filepath].kind = "model"
    /\ workout_data[filepath].parser = "fitparse"

\* C16: a repeat marker with count n that ends no exercise, rest, marker
\* run gives no step of its own (no entry of the Windows model, no row of
\* the Mac preview), the most recent step that is neither a rest nor a
\* marker has sets = n + 1 after the last marker on it, and a step no marker
\* is on keeps its sets.
C16_LoneMarkerOriginal ==
    Settled =>
        LET file  == disk[filepath]
            model == workout_data[filepath]
        IN  /\ \A k \in LoneMarkers(file) :
                  /\ IF platform = "mac" THEN RowsOf(k) = {} ELSE EntriesOf(k) = {}
                  /\ (Emitted(file, k) # {}
                      /\ k = Max(MarkersOn(file, Max(Emitted(file, k)))))
                        => \E j \in EntriesOf(Max(Emitted(file, k))) :
                              model.steps[j].sets = RawMarkerCount(file.steps[k]) + 1
            /\ \A j \in 1..Len(model.steps) :
                  (~model.steps[j].is_repeat /\ MarkersOn(file, model.steps[j].idx) = {})
                     => model.steps[j].sets \in {1, NoInt}

\* C17: in the rows of the preview, the step shown as the nested exercise
\* of a repeat block is never a rest step or a repeat marker.
C17_NestedExerciseOriginal ==
    pc = "shown" =>
        \A j \in 1..Len(processed) :
            processed[j].display_type = "nested_exercise" =>
                /\ ~row_is_rest(processed[j].step)
                /\ ~processed[j].step.is_repeat
                /\ processed[j].step.step_type # "repeat"

(***************************************************************************)
(* SpecDecode: the fitparse parser on files of one workout_step message,   *)
(* over the values of the fields the second pass reads, the exercise_title *)
(* messages and the sport and sub_sport of the workout message.            *)
(***************************************************************************)
MaxTitles == 2

\* messages over the fields that set is_repeat, is_rest and is_warmup
FlagSteps ==
    {[NoFields EXCEPT !.duration_type = dt, !.repeat_steps = rs, !.intensity = it] :
        dt \in {PyAbsent, PyStr("time"), PyStr("open"),
               PyStr("repeat_until_steps_cmplt"), PyInt(6)},
        rs \in {NoInt, 2},
        it \in {PyAbsent, PyNone, PyStr("active"), PyStr("rest"), PyStr("warmup"),
                PyStr("cooldown"), PyInt(0), PyInt(1), PyInt(2), PyInt(3),
                PyStr("1"), PyInt(7)}}

\* exercise messages over the fields the name is resolved from
NamingSteps ==
    {[NoFields EXCEPT !.wkt_step_name = nm, !.duration_type = PyStr("reps"),
                      !.duration_reps = 10, !.intensity = PyStr("active"),
                      !.exercise_category = cat, !.exercise_name = ex] :
        nm \in {"", "Jog"},
        cat \in {PyAbsent, PyNone, PyStr("lunge"), PyInt(28), PyInt(0)},
        ex \in {NoInt, 0, 1}}

\* exercise_title messages; the last one carries no name
TitleMessages ==
    {[exercise_category |-> PyStr("lunge"), exercise_name |-> 0,
      wkt_step_name |-> "Forward Lunge"],
     [exercise_category |-> PyStr("lunge"), exercise_name |-> 1,
      wkt_step_name |-> "Side Lunge"],
     [exercise_category |-> PyInt(28), exercise_name |-> 0,
      wkt_step_name |-> "Back Squat"],
     [exercise_category |-> PyInt(0), exercise_name |-> 0,
      wkt_step_name |-> "Bench Press"],
     [exercise_category |-> PyStr("lunge"), exercise_name |-> 0,
      wkt_step_name |-> ""]}

\* sport and sub_sport of the workout message
StrengthPairs ==
    { <<PyStr("training"), PyAbsent>>,
      <<PyStr("training"), PyStr("strength_training")>>,
      <<PyStr("fitness_equipment"), PyAbsent>>,
      <<PyNone, PyAbsent>>, <<PyAbsent, PyAbsent>>, <<PyInt(0), PyNone>> }

\* in the list by sport, by sub_sport, after lower(), and by 'run' alone
CardioPairs ==
    { <<PyStr("running"), PyAbsent>>, <<PyStr("cycling"), PyAbsent>>,
      <<PyStr("Running"), PyAbsent>>,
      <<PyStr("generic"), PyStr("treadmill")>>,
      <<PyAbsent, PyStr("treadmill")>>,
      <<PyStr("generic"), PyStr("indoor_running")>>,
      <<PyStr("virtual_run"), PyAbsent>>,
      <<PyNone, PyStr("virtual_run")>> }

DecodeFiles ==
    {WorkoutFile(sp[1], sp[2], <<f>>) :
        sp \in { <<PyStr("training"), PyAbsent>>, <<PyStr("running"), PyAbsent>> },
        f \in FlagSteps}
    \cup {[WorkoutFile(PyStr("training"), PyAbsent, <<f>>) EXCEPT !.titles = tt] :
            f \in NamingSteps, tt \in SeqsUpTo(TitleMessages, MaxTitles)}
    \cup {WorkoutFile(sp[1], sp[2], <<f>>) :
            sp \in StrengthPairs \cup CardioPairs,
            f \in {StepSquat, StepRun, StepRest, StepMarker(2)}}

InitDecode ==
    /\ platform \in {"mac", "win"}
    /\ FITFILETOOL_AVAILABLE = FALSE
    /\ FITPARSE_AVAILABLE = TRUE
    /\ filepath = InputPath
    /\ \E f \in DecodeFiles : disk = (InputPath :> f)
    /\ workout_data = <<>>
    /\ processed = <<>>
    /\ validation = <<>>
    /\ workout = NoWorkout
    /\ repair = NoRepair
    /\ reader = NoReader
    /\ loop = NoLoop
    /\ gui = NoGui
    /\ monitor = NoMonitor
    /\ pc = "start"

NextDecode == ParseWithFitparse

SpecDecode == InitDecode /\ [][NextDecode]_vars

\* the step dictionary the second pass makes of the file's message
RawStep == steps_raw(platform, disk[filepath].steps)[1]

FromFitparse ==
    /\ Parsed
    /\ workout_data[filepath].kind = "model"
    /\ workout_data[filepath].parser = "fitparse"

\* C18 as stated: at most one of is_repeat, is_rest and is_warmup is true
\* on the step dictionary of a decoded workout_step message.
C18_OneFlagOriginal ==
    Parsed =>
        Cardinality({x \in {"repeat", "rest", "warmup"} :
            \/ x = "repeat" /\ RawStep.is_repeat
            \/ x = "rest" /\ RawStep.is_rest
            \/ x = "warmup" /\ RawStep.is_warmup}) <= 1

\* C18: is_rest and is_warmup are never both true; is_repeat may be true
\* together with either, and the third pass then takes the step as a repeat
\* marker: every message has at most one entry in the model, a repeat entry
\* (Mac) or none (Windows) for is_repeat, else a rest entry (none in a
\* Windows strength workout) for is_rest, else a warm-up entry for
\* is_warmup, else an entry that is none of the three.
C18_OneRole ==
    /\ Parsed => ~(RawStep.is_rest /\ RawStep.is_warmup)
    /\ FromFitparse =>
          LET model == workout_data[filepath]
              E     == EntriesOf(1)
              types == {model.steps[j].step_type : j \in E}
              mac   == platform = "mac"
              cardio == is_cardio(disk[filepath])
          IN  /\ Cardinality(E) <= 1
              /\ IF RawStep.is_repeat
                 THEN IF mac THEN types = {"repeat"} ELSE E = {}
                 ELSE IF RawStep.is_rest
                 THEN IF mac \/ cardio THEN types = {"rest"} ELSE E = {}
                 ELSE IF RawStep.is_warmup
                 THEN types = {"warmup"}
                 ELSE /\ Cardinality(E) = 1
                      /\ "repeat" \notin types
                      /\ mac => types \cap {"rest", "warmup"} = {}

\* a message with a repeat duration type and intensity rest, parsed
C18_Witness ==
    /\ FromFitparse
    /\ platform = "mac"
    /\ RawStep.is_repeat /\ RawStep.is_rest
    /\ \E j \in EntriesOf(1) : workout_data[filepath].steps[j].step_type = "repeat"

\* the names the title index holds for the message's category and
\* exercise, and for its category alone
PairTitles(file, f) ==
    {t.wkt_step_name : t \in
        {t \in Elements(indexed_titles(file.titles)) :
            /\ title_category(t) = str(f.exercise_category)
            /\ t.exercise_name = f.exercise_name}}

CategoryTitles(file, f) ==
    {t.wkt_step_name : t \in
        {t \in Elements(indexed_titles(file.titles)) :
            title_category(t) = str(f.exercise_category)}}

\* C19: in a strength workout the name of an exercise step is its
\* wkt_step_name; without one, the title of its (category, exercise) pair;
\* without one, the title of its category; without one, the category
\* title-cased with spaces for underscores; without a category, "Exercise".
C19_NameOrderOriginal ==
    (FromFitparse /\ ~is_cardio(disk[filepath])
     /\ RawIsExercise(disk[filepath].steps[1])) =>
        LET file == disk[filepath]
            f    == file.steps[1]
            cat  == Truthy(f.exercise_category)
        IN  \E j \in EntriesOf(1) :
                workout_data[filepath].steps[j].name \in
                    IF f.wkt_step_name # "" THEN {f.wkt_step_name}
                    ELSE IF cat /\ PairTitles(file, f) # {} THEN PairTitles(file, f)
                    ELSE IF cat /\ CategoryTitles(file, f) # {}
                         THEN CategoryTitles(file, f)
                    ELSE IF cat THEN {title(replace_us(str(f.exercise_category)))}
                    ELSE {"Exercise"}

\* evidence of the branch the third pass took for an exercise step: the
\* cardio branch sets step_type, or raises on the missing sport
CardioSeen ==
    \/ FromFitparse
       /\ \E j \in EntriesOf(1) : workout_data[filepath].steps[j].step_type # Absent
    \/ Parsed /\ ~FromFitparse /\ ~Truthy(disk[filepath].sport)

StrengthSeen ==
    /\ FromFitparse
    /\ \A j \in EntriesOf(1) : workout_data[filepath].steps[j].step_type = Absent

\* C20: a workout is taken as cardio exactly when its sport or sub_sport,
\* lower-cased and "" when absent, is in the list of cardio sports or holds
\* "run"; every other workout is taken as strength.
C20_CardioClassification ==
    (Parsed /\ RawIsExercise(disk[filepath].steps[1])) =>
        LET pair == <<disk[filepath].sport, disk[filepath].sub_sport>>
        IN  /\ pair \in CardioPairs => CardioSeen /\ ~StrengthSeen
            /\ pair \in StrengthPairs => StrengthSeen /\ ~CardioSeen

\* classified by the substring alone, and by the lower-cased sport
C20_Witness ==
    /\ FromFitparse
    /\ RawIsExercise(disk[filepath].steps[1])
    /\ disk[filepath].sub_sport = PyStr("indoor_running")
    /\ CardioSeen

\* C21: a message with intensity rest that is no repeat marker has exactly
\* one entry in the model, a rest step with the message's duration type and
\* its seconds as rest_seconds, in strength and cardio workouts; a rest of
\* duration type open keeps "open" and gets no seconds.
C21_RestKeptOriginal ==
    (FromFitparse /\ RawIsRest(disk[filepath].steps[1])) =>
        LET f == disk[filepath].steps[1]
            E == EntriesOf(1)
        IN  /\ Cardinality(E) = 1
            /\ \A j \in E :
                  LET e == workout_data[filepath].steps[j]
                  IN  /\ e.step_type = "rest"
                      /\ f.duration_type = PyStr("open")
                            => e.duration_type = "open" /\ e.rest_seconds \in {0, NoInt}
                      /\ f.duration_type = PyStr("time")
                            => /\ e.duration_type = "time"
                               /\ e.rest_seconds = GetI(f.duration_time, 0)

\* the names of the exercise_title messages with category 0 and a name,
\* for the message's exercise and for any exercise
ZeroPairTitles(file, f) ==
    {t.wkt_step_name : t \in
        {t \in Elements(file.titles) :
            /\ t.exercise_category = PyInt(0) /\ t.wkt_step_name # ""
            /\ t.exercise_name = f.exercise_name}}

ZeroCategoryTitles(file) ==
    {t.wkt_step_name : t \in
        {t \in Elements(file.titles) :
            t.exercise_category = PyInt(0) /\ t.wkt_step_name # ""}}

\* C22: an exercise message of a strength workout with exercise_category 0
\* carries category "0" in the model and, without a step name, is named
\* from it: by the title of (0, exercise), else the title of category 0,
\* else the category itself.
C22_ZeroKeptOriginal ==
    (FromFitparse /\ ~is_cardio(disk[filepath])
     /\ RawIsExercise(disk[filepath].steps[1])
     /\ disk[filepath].steps[1].exercise_category = PyInt(0)) =>
        LET file == disk[filepath]
            f    == file.steps[1]
        IN  \E j \in EntriesOf(1) :
              LET e == workout_data[filepath].steps[j]
              IN  /\ IF platform = "mac" THEN e.category = "0" ELSE e.type = "0"
                  /\ f.wkt_step_name = "" =>
                        e.name \in
                          IF ZeroPairTitles(file, f) # {} THEN ZeroPairTitles(file, f)
                          ELSE IF ZeroCategoryTitles(file) # {}
                               THEN ZeroCategoryTitles(file)
                          ELSE {"0"}

\* the tag of an intensity code of the FIT profile
IntensityTag(v) ==
    CASE v \in {PyInt(0), PyStr("0")} -> "active"
      [] v \in {PyInt(1), PyStr("1")} -> "rest"
      [] v \in {PyInt(2), PyStr("2")} -> "warmup"
      [] v \in {PyInt(3), PyStr("3")} -> "cooldown"
      [] OTHER -> str(v)

IntensityCodes ==
    {PyInt(0), PyStr("0"), PyInt(1), PyStr("1"), PyInt(2), PyStr("2"),
     PyInt(3), PyStr("3")}

\* the file with the tag in place of the code
WithTag(file) ==
    [file EXCEPT !.steps =
        << [file.steps[1] EXCEPT !.intensity = PyStr(IntensityTag(@))] >>]

\* C23: a message whose intensity is a code gives the model the same
\* message gives with the tag (0 active, 1 rest, 2 warmup, 3 cooldown), in a
\* cardio workout a step of that type; an unrecognised code is kept as its
\* string and the parse does not fail.
C23_IntensityCodesOriginal ==
    (Parsed /\ ~RawStep.is_repeat) =>
        LET file == disk[filepath]
            f    == file.steps[1]
        IN  /\ f.intensity \in IntensityCodes =>
                /\ workout_data[filepath] =
                      parse_fit_with_fitparse(platform, WithTag(file))
                /\ (FromFitparse /\ is_cardio(file)) =>
                      \E j \in EntriesOf(1) :
                          workout_data[filepath].steps[j].step_type
                              = IntensityTag(f.intensity)
            /\ f.intensity = PyInt(7) =>
                /\ FromFitparse
                /\ RawStep.intensity = "7"
                /\ EntriesOf(1) # {}

(***************************************************************************)
(* SpecStream: the fitparse parser on files whose exercise_title and       *)
(* workout_step messages lie in any order.                                 *)
(***************************************************************************)
MaxStream == 3

\* fitfile.get_messages(name): the messages of that name, in file order
get_messages(stream, name) ==
    LET sel == SelectSeq(stream, LAMBDA m : m.name = name)
    IN  [k \in 1..Len(sel) |-> sel[k].fields]

\* an index filled while the steps are read: the titles met before the
\* first workout_step message
exercise_titles_so_far(stream) ==
    LET first == IF \E k \in 1..Len(stream) : stream[k].name = "workout_step"
                 THEN CHOOSE k \in 1..Len(stream) :
                        /\ stream[k].name = "workout_step"
                        /\ \A i \in 1..(k - 1) : stream[i].name # "workout_step"
                 ELSE Len(stream) + 1
    IN  get_messages(SubSeq(stream, 1, first - 1), "exercise_title")

\* first pass: for record in fitfile.get_messages('exercise_title')
exercise_titles_pass(stream) == get_messages(stream, "exercise_title")

\* what the passes of the parser read from the file
delivered(file) ==
    [file EXCEPT !.titles = exercise_titles_pass(file.stream),
                 !.steps = get_messages(file.stream, "workout_step")]

LungeStep(ex) ==
    [NoFields EXCEPT !.duration_type = PyStr("reps"), !.duration_reps = 10,
        !.intensity = PyStr("active"), !.exercise_category = PyStr("lunge"),
        !.exercise_name = ex]

StreamMessages ==
    {[name |-> "exercise_title",
      fields |-> [exercise_category |-> PyStr("lunge"), exercise_name |-> 0,
                  wkt_step_name |-> "Forward Lunge"]],
     [name |-> "exercise_title",
      fields |-> [exercise_category |-> PyStr("lunge"), exercise_name |-> 1,
                  wkt_step_name |-> "Side Lunge"]],
     [name |-> "workout_step", fields |-> LungeStep(0)],
     [name |-> "workout_step", fields |-> LungeStep(1)],
     [name |-> "workout_step", fields |-> StepSquat]}

InitStream ==
    /\ platform \in {"mac", "win"}
    /\ FITFILETOOL_AVAILABLE = FALSE
    /\ FITPARSE_AVAILABLE = TRUE
    /\ filepath = InputPath
    /\ \E st \in SeqsUpTo(StreamMessages, MaxStream) :
          disk = (InputPath :>
                    [WorkoutFile(PyStr("training"), PyAbsent, <<>>)
                        EXCEPT !.stream = st])
    /\ workout_data = <<>>
    /\ processed = <<>>
    /\ validation = <<>>
    /\ workout = NoWorkout
    /\ repair = NoRepair
    /\ reader = NoReader
    /\ loop = NoLoop
    /\ gui = NoGui
    /\ monitor = NoMonitor
    /\ pc = "start"

\* self.parse_fit_with_fitparse(filepath) on the file as it lies on disk
ParseStream ==
    /\ pc = "start"
    /\ workout_data' =
          (filepath :> parse_fit_with_fitparse(platform, delivered(disk[filepath])))
    /\ pc' = "parsed"
    /\ UNCHANGED <<loop, gui, monitor, reader, platform, FITFILETOOL_AVAILABLE, FITPARSE_AVAILABLE,
                   disk, filepath, processed, validation, workout, repair>>

NextStream == ParseStream

SpecStream == InitStream /\ [][NextStream]_vars

\* the same messages with every exercise_title before every workout_step
TitlesFirst(stream) ==
    SelectSeq(stream, LAMBDA m : m.name = "exercise_title")
    \o SelectSeq(stream, LAMBDA m : m.name = "workout_step")

\* the workout_step messages of the stream, in order
StreamSteps(stream) ==
    LET sel == SelectSeq(stream, LAMBDA m : m.name = "workout_step")
    IN  [k \in 1..Len(sel) |-> sel[k].fields]

\* C24: the model does not depend on where the exercise_title messages lie
\* among the workout_step messages: it is the model of the file with all
\* titles first, and a step without a name whose (category, exercise) pair
\* has a title anywhere in the file carries that title.
C24_TitleOrder ==
    Parsed =>
        LET file  == disk[filepath]
            steps == StreamSteps(file.stream)
        IN  /\ workout_data[filepath] =
                  parse_fit_with_fitparse(platform,
                      delivered([file EXCEPT !.stream = TitlesFirst(file.stream)]))
            /\ \A k \in 1..Len(steps) :
                  \A m \in Elements(file.stream) :
                      (/\ m.name = "exercise_title"
                       /\ steps[k].wkt_step_name = ""
                       /\ m.fields.exercise_category = steps[k].exercise_category
                       /\ m.fields.exercise_name = steps[k].exercise_name)
                      => /\ FromFitparse
                         /\ \E j \in EntriesOf(k) :
                               workout_data[filepath].steps[j].name
                                   = m.fields.wkt_step_name

\* a step whose title lies after it in the file, named from that title
C24_Witness ==
    /\ FromFitparse
    /\ Len(disk[filepath].stream) = 2
    /\ disk[filepath].stream[1].name = "workout_step"
    /\ disk[filepath].stream[1].fields = LungeStep(1)
    /\ disk[filepath].stream[2].name = "exercise_title"
    /\ workout_data[filepath].steps[1].name = "Side Lunge"

(***************************************************************************)
(* Order of the model and of the preview rows (SpecPreview).               *)
(***************************************************************************)
\* the rows that show a step (every row but the header of a block)
StepRows == {j \in 1..Len(processed) : processed[j].display_type # "repeat_header"}

\* C25: the entries of the model follow the order of the raw steps they
\* were made from, and so do the rows of the preview; the rows of a folded
\* run (header, nested exercise, nested rest) stand together, header first,
\* where the exercise stood.
C25_EmissionOrder ==
    /\ (pc # "start" /\ workout_data[filepath].parser = "fitparse") =>
          LET st == workout_data[filepath].steps
          IN  \A a, b \in 1..Len(st) : a < b => st[a].idx < st[b].idx
    /\ (pc = "shown" /\ workout_data[filepath].parser = "fitparse") =>
          /\ \A a, b \in StepRows :
                a < b => processed[a].step.idx < processed[b].step.idx
          /\ \A j \in 1..Len(processed) :
                processed[j].display_type = "repeat_header" =>
                    /\ j + 2 <= Len(processed)
                    /\ processed[j + 1].display_type = "nested_exercise"
                    /\ processed[j + 2].display_type = "nested_rest"
                    /\ \A a \in StepRows :
                          a < j => processed[a].step.idx < processed[j + 1].step.idx
          /\ \A j \in StepRows :
                processed[j].display_type = "nested_exercise" =>
                    j > 1 /\ processed[j - 1].display_type = "repeat_header"

\* a block shown after a regular row
C25_Witness ==
    /\ pc = "shown"
    /\ workout_data[filepath].parser = "fitparse"
    /\ Len(processed) = 4
    /\ processed[1].display_type = "regular"
    /\ processed[2].display_type = "repeat_header"
    /\ processed[4].display_type = "nested_rest"

(***************************************************************************)
(* The reps values repair_fit_file hands to the builder (SpecRoundTrip).   *)
(***************************************************************************)
\* cs is a non-empty run of digits followed by the characters of unit
DigitsThen(cs, unit) ==
    /\ Len(cs) > Len(unit)
    /\ SubSeq(cs, Len(cs) - Len(unit) + 1, Len(cs)) = unit
    /\ \A k \in 1..(Len(cs) - Len(unit)) :
          cs[k] \in {"0", "1", "2", "3", "4", "5", "6", "7", "8", "9"}

\* digits, a point, one digit, "km"
Kilometres(cs) ==
    /\ Len(cs) >= 5
    /\ SubSeq(cs, Len(cs) - 1, Len(cs)) = <<"k", "m">>
    /\ cs[Len(cs) - 3] = "."
    /\ DigitsThen(SubSeq(cs, 1, Len(cs) - 3), <<".">>)
    /\ DigitsThen(SubSeq(cs, Len(cs) - 2, Len(cs)), <<"k", "m">>)

\* the call flattened the model of the file
Flattened ==
    /\ pc = "repaired"
    /\ workout_data[filepath].kind = "model"
    /\ Len(workout.exercises) = Len(workout_data[filepath].steps)

\* C26: every exercise repair_fit_file makes of a step has reps of a
\* recognised shape that fits the step: the step's rep count as an integer
\* for a step with reps; else digits and "m", or kilometres with one
\* decimal and "km" from 1000 m on, for a step with a distance; else digits
\* and "s" for a step with a duration; else the integer 10.
C26_RepsShapes ==
    Flattened =>
        \A k \in 1..Len(workout.exercises) :
            LET step == workout_data[filepath].steps[k]
                reps == workout.exercises[k].reps
            IN  /\ \/ reps.kind = "int"
                   \/ DigitsThen(reps.chars, <<"s">>)
                   \/ DigitsThen(reps.chars, <<"m">>)
                   \/ Kilometres(reps.chars)
                /\ IF TruthyI(step.reps)
                   THEN reps.kind = "int" /\ reps.n = step.reps
                   ELSE IF TruthyI(step.distance)
                   THEN /\ reps.kind = "str"
                        /\ IF step.distance >= 1000 THEN Kilometres(reps.chars)
                           ELSE DigitsThen(reps.chars, <<"m">>)
                   ELSE IF TruthyI(step.duration)
                   THEN reps.kind = "str" /\ DigitsThen(reps.chars, <<"s">>)
                   ELSE reps.kind = "int" /\ reps.n = 10

\* a distance of 1200 m and a duration of 30 s flattened
C26_Witness ==
    /\ Flattened
    /\ Len(workout.exercises) = 2
    /\ workout.exercises[1].reps = RepsStr(<<"1", ".", "2", "k", "m">>)
    /\ workout.exercises[2].reps = RepsStr(<<"3", "0", "s">>)

\* C28: for a workout that is cardio through its sub_sport alone (no
\* sport), the fitparse parser returns its own model, in which an active
\* step without notes has a name.
C28_SubSportOnlyOriginal ==
    (/\ Parsed
     /\ ~Truthy(disk[filepath].sport)
     /\ is_cardio(disk[filepath])
     /\ RawIsExercise(disk[filepath].steps[1])
     /\ disk[filepath].steps[1].notes = "") =>
        /\ FromFitparse
        /\ \E j \in EntriesOf(1) :
              TruthyS(workout_data[filepath].steps[j].name)

(***************************************************************************)
(* SpecLoop: the two step loops executed one iteration at a time.  loop    *)
(* holds the index i (from 1), the list built so far, the input positions  *)
(* the iterations have read (consumed) and, for every element of the list, *)
(* the input position it was made from (from).                             *)
(***************************************************************************)
MaxLoopSteps == 3

LoopSteps == {StepSquat, StepRun, StepRest, StepWarmupNotes, StepMarker(2)}

\* one iteration of the while loop of the third pass: the loop body run on
\* the stream cut after step i
third_pass_iteration(plat, file, raw, i, exercises) ==
    IF plat = "mac" THEN third_pass_mac(file, SubSeq(raw, 1, i), i, exercises)
    ELSE third_pass_win(file, SubSeq(raw, 1, i), i, exercises)

\* one iteration of the while loop of process_steps_for_preview
preview_iteration(steps, l) ==
    IF l.i + 2 <= Len(steps) /\ row_is_rest(steps[l.i + 1]) /\ steps[l.i + 2].is_repeat
    THEN [l EXCEPT !.i = l.i + 3,
            !.out = l.out \o << repeat_header(GetI(steps[l.i + 2].repeat_count, 0) + 1),
                                display_row("nested_exercise", steps[l.i]),
                                display_row("nested_rest", steps[l.i + 1]) >>,
            !.consumed = l.consumed \o <<l.i, l.i + 1, l.i + 2>>,
            !.from = l.from \o <<l.i + 2, l.i, l.i + 1>>]
    ELSE IF steps[l.i].is_repeat
    THEN [l EXCEPT !.i = l.i + 1, !.consumed = Append(l.consumed, l.i)]
    ELSE [l EXCEPT !.i = l.i + 1,
            !.out = Append(l.out, display_row("regular", steps[l.i])),
            !.consumed = Append(l.consumed, l.i),
            !.from = Append(l.from, l.i)]

InitLoop ==
    /\ platform \in {"mac", "win"}
    /\ FITFILETOOL_AVAILABLE = FALSE
    /\ FITPARSE_AVAILABLE = TRUE
    /\ filepath = InputPath
    /\ \E sp \in PreviewSports, st \in SeqsUpTo(LoopSteps, MaxLoopSteps) :
          disk = [p \in {InputPath} |-> WorkoutFile(sp[1], sp[2], st)]
    /\ workout_data = <<>>
    /\ processed = <<>>
    /\ validation = <<>>
    /\ workout = NoWorkout
    /\ repair = NoRepair
    /\ reader = NoReader
    /\ loop = NoLoop
    /\ gui = NoGui
    /\ monitor = NoMonitor
    /\ pc = "start"

\* the stream the second pass leaves to the third
LoopRaw == steps_raw(platform, disk[filepath].steps)

\* exercises = []; i = 0
EnterThirdPass ==
    /\ pc = "start"
    /\ loop' = [NoLoop EXCEPT !.name = "third_pass", !.i = 1]
    /\ pc' = "third_pass"
    /\ UNCHANGED <<gui, monitor, reader, platform, FITFILETOOL_AVAILABLE,
                   FITPARSE_AVAILABLE, disk, filepath, workout_data, processed,
                   validation, workout, repair>>

\* while i < len(raw_steps): one pass through the body; an exception of
\* the body leaves the loop
ThirdPassIteration ==
    /\ pc = "third_pass"
    /\ loop.i <= Len(LoopRaw)
    /\ LET r == third_pass_iteration(platform, disk[filepath], LoopRaw, loop.i, loop.out)
       IN  IF r.raised
           THEN pc' = "raised" /\ UNCHANGED loop
           ELSE /\ loop' = [loop EXCEPT !.i = loop.i + 1, !.out = r.exercises,
                               !.consumed = Append(loop.consumed, loop.i),
                               !.from = loop.from \o
                                   [j \in 1..(Len(r.exercises) - Len(loop.out)) |-> loop.i]]
                /\ pc' = "third_pass"
    /\ UNCHANGED <<gui, monitor, reader, platform, FITFILETOOL_AVAILABLE,
                   FITPARSE_AVAILABLE, disk, filepath, workout_data, processed,
                   validation, workout, repair>>

\* the loop condition fails: workout_data['steps'] = exercises; return
ReturnModel ==
    /\ pc = "third_pass"
    /\ loop.i > Len(LoopRaw)
    /\ workout_data' = (filepath :>
          IF platform = "mac" /\ loop.out = <<>> THEN NoneModel
          ELSE fitparse_model(disk[filepath], loop.out))
    /\ pc' = "parsed"
    /\ UNCHANGED <<loop, gui, monitor, reader, platform, FITFILETOOL_AVAILABLE,
                   FITPARSE_AVAILABLE, disk, filepath, processed, validation,
                   workout, repair>>

\* except Exception: the basic parser (Mac) or None (Windows)
ExceptParse ==
    /\ pc = "raised"
    /\ workout_data' = (filepath :>
          IF platform = "mac" THEN parse_fit_basic_mac(disk[filepath]) ELSE NoneModel)
    /\ pc' = "parsed"
    /\ UNCHANGED <<loop, gui, monitor, reader, platform, FITFILETOOL_AVAILABLE,
                   FITPARSE_AVAILABLE, disk, filepath, processed, validation,
                   workout, repair>>

\* process_steps_for_preview: processed = []; i = 0
EnterPreviewLoop ==
    /\ pc = "parsed"
    /\ platform = "mac"
    /\ workout_data[filepath].kind = "model"
    /\ loop' = [NoLoop EXCEPT !.name = "preview", !.i = 1]
    /\ pc' = "preview"
    /\ UNCHANGED <<gui, monitor, reader, platform, FITFILETOOL_AVAILABLE,
                   FITPARSE_AVAILABLE, disk, filepath, workout_data, processed,
                   validation, workout, repair>>

\* while i < len(steps): one pass through the body
PreviewIteration ==
    /\ pc = "preview"
    /\ loop.i <= Len(workout_data[filepath].steps)
    /\ loop' = preview_iteration(workout_data[filepath].steps, loop)
    /\ pc' = "preview"
    /\ UNCHANGED <<gui, monitor, reader, platform, FITFILETOOL_AVAILABLE,
                   FITPARSE_AVAILABLE, disk, filepath, workout_data, processed,
                   validation, workout, repair>>

\* return processed
ReturnProcessed ==
    /\ pc = "preview"
    /\ loop.i > Len(workout_data[filepath].steps)
    /\ processed' = loop.out
    /\ pc' = "shown"
    /\ UNCHANGED <<loop, gui, monitor, reader, platform, FITFILETOOL_AVAILABLE,
                   FITPARSE_AVAILABLE, disk, filepath, workout_data, validation,
                   workout, repair>>

NextLoop ==
    \/ EnterThirdPass \/ ThirdPassIteration \/ ReturnModel \/ ExceptParse
    \/ EnterPreviewLoop \/ PreviewIteration \/ ReturnProcessed

\* the interpreter keeps executing the statement it is at
SpecLoop == InitLoop /\ [][NextLoop]_vars /\ WF_vars(NextLoop)

\* the list a loop runs over
LoopInput ==
    IF loop.name = "third_pass" THEN LoopRaw
    ELSE IF loop.name = "preview" THEN workout_data[filepath].steps
    ELSE <<>>

\* the loop has been left
LoopLeft ==
    \/ loop.name = "third_pass" /\ pc \in {"raised", "parsed"}
    \/ loop.name = "preview" /\ pc = "shown"

\* every input position was read once, in order, and gave one element of
\* the result, or none if it is a repeat marker
ConsumedOnce ==
    /\ loop.consumed = [k \in 1..Len(LoopInput) |-> k]
    /\ \A k \in 1..Len(LoopInput) :
          LET made == Cardinality({j \in 1..Len(loop.from) : loop.from[j] = k})
          IN  made = 1 \/ (made = 0 /\ LoopInput[k].is_repeat)

\* an iteration moves the index by 1 or by 3
IndexAdvances ==
    (loop'.name = loop.name /\ loop' # loop) =>
        loop'.i \in {loop.i + 1, loop.i + 3}

\* the two ways of computing the loops agree
LoopsAgree ==
    /\ (loop.name = "third_pass" /\ pc = "parsed") =>
          workout_data[filepath] = parse_fit_with_fitparse(platform, disk[filepath])
    /\ pc = "shown" =>
          processed = process_steps_for_preview(workout_data[filepath].steps)

\* C27: both step loops terminate; every iteration moves the index by 1 or
\* by 3; when a loop is left every input step has been read exactly once
\* and was emitted once or skipped as a repeat marker.
C27_LoopsOriginal ==
    /\ [][IndexAdvances]_vars
    /\ [](LoopLeft => ConsumedOnce)
    /\ (pc = "third_pass") ~> (pc \in {"raised", "parsed"})
    /\ (pc = "preview") ~> (pc = "shown")

(***************************************************************************)
(* SpecFiles (Mac): the file list of the main window.  gui holds           *)
(* selected_files, the rows of file_listbox, the state of prepare_btn and  *)
(* the preview windows that show a Repair button.  A path is a sequence of *)
(* tokens as for repair_fit_file; a dropped string is taken as the list of *)
(* paths it names.                                                         *)
(***************************************************************************)
MaxAdd == 2

\* how many times a repaired file is repaired again
MaxRepairs == 1

GuiBasePaths == { <<"a", ".", "FIT">>, <<"c", ".", "txt">> }

GuiPaths == GuiBasePaths \cup {repaired_path(p) : p \in GuiBasePaths}

\* f.lower().endswith('.fit')
endswith_fit(f) ==
    /\ Len(f) >= 2
    /\ f[Len(f) - 1] = "."
    /\ f[Len(f)] \in {"fit", "FIT", "Fit"}

\* os.path.basename(f)
basename(f) == SubSeq(f, rfind(f, "/") + 1, Len(f))

PlaceholderRow == [row |-> "placeholder", name |-> <<>>, repaired |-> FALSE]

FileRow(f, rep) == [row |-> "file", name |-> basename(f), repaired |-> rep]

\* update_ui_state
update_ui_state(g) ==
    IF Len(g.selected_files) > 0
    THEN [g EXCEPT !.file_count = Len(g.selected_files), !.prepare_btn = "normal"]
    ELSE [g EXCEPT !.file_count = 0, !.prepare_btn = "disabled"]

RECURSIVE add_files_loop(_, _, _, _)
\* the for loop of add_files_to_list from file k; [g, added_count]
add_files_loop(g, files, k, added_count) ==
    IF k > Len(files) THEN [g |-> g, added_count |-> added_count]
    ELSE LET f == files[k] IN
         IF (\A j \in 1..Len(g.selected_files) : g.selected_files[j] # f)
            /\ endswith_fit(f)
         THEN add_files_loop(
                 [g EXCEPT !.selected_files = Append(g.selected_files, f),
                           !.file_listbox = Append(g.file_listbox, FileRow(f, FALSE))],
                 files, k + 1, added_count + 1)
         ELSE add_files_loop(g, files, k + 1, added_count)

\* add_files_to_list(files)
add_files_to_list(g, files) ==
    IF files = <<>> THEN g
    ELSE LET g1 == IF g.selected_files = <<>>
                   THEN [g EXCEPT !.file_listbox = <<>>, !.fg = "black"]
                   ELSE g
             r  == add_files_loop(g1, files, 1, 0)
         IN  IF r.added_count > 0 THEN update_ui_state(r.g) ELSE r.g

\* clear_files
clear_files(g) ==
    update_ui_state([g EXCEPT !.selected_files = <<>>,
                              !.file_listbox = <<PlaceholderRow>>,
                              !.fg = "#999"])

\* do_repair after repair_fit_file returned new_file
do_repair(g, new_file) ==
    IF \A j \in 1..Len(g.selected_files) : g.selected_files[j] # new_file
    THEN [g EXCEPT !.selected_files = Append(g.selected_files, new_file),
                   !.file_listbox = Append(g.file_listbox, FileRow(new_file, TRUE)),
                   !.file_count = Len(g.selected_files) + 1]
    ELSE g

InitFiles ==
    /\ platform = "mac"
    /\ FITFILETOOL_AVAILABLE \in BOOLEAN
    /\ FITPARSE_AVAILABLE = TRUE
    /\ filepath = InputPath
    /\ disk = <<>>
    /\ workout_data = <<>>
    /\ processed = <<>>
    /\ validation = <<>>
    /\ workout = NoWorkout
    /\ repair = NoRepair
    /\ reader = NoReader
    /\ loop = NoLoop
    /\ gui = [window |-> "open", selected_files |-> <<>>,
              file_listbox |-> <<PlaceholderRow>>, fg |-> "#999",
              prepare_btn |-> "disabled", file_count |-> 0, previews |-> {}]
    /\ monitor = NoMonitor
    /\ pc = "ui"

\* add_files: the dialog returns any files (the "All files" filter)
AddFiles ==
    /\ pc = "ui"
    /\ \E files \in SeqsUpTo(GuiPaths, MaxAdd) :
          gui' = add_files_to_list(gui, files)
    /\ UNCHANGED <<loop, monitor, reader, platform, FITFILETOOL_AVAILABLE,
                   FITPARSE_AVAILABLE, disk, filepath, workout_data, processed,
                   validation, workout, repair, pc>>

\* on_drop: parse_drop_data keeps the .fit files, nothing is added if none
OnDrop ==
    /\ pc = "ui"
    /\ \E data \in SeqsUpTo(GuiPaths, MaxAdd) :
          LET files == SelectSeq(data, endswith_fit)
          IN  gui' = IF files = <<>> THEN gui ELSE add_files_to_list(gui, files)
    /\ UNCHANGED <<loop, monitor, reader, platform, FITFILETOOL_AVAILABLE,
                   FITPARSE_AVAILABLE, disk, filepath, workout_data, processed,
                   validation, workout, repair, pc>>

\* clear_files
ClearFiles ==
    /\ pc = "ui"
    /\ gui' = clear_files(gui)
    /\ UNCHANGED <<loop, monitor, reader, platform, FITFILETOOL_AVAILABLE,
                   FITPARSE_AVAILABLE, disk, filepath, workout_data, processed,
                   validation, workout, repair, pc>>

\* show_fit_preview(filepath): the window gets a Repair button when the
\* validation failed and the library is there
show_fit_preview(g, f, parsed, valid) ==
    IF parsed /\ ~valid /\ FITFILETOOL_AVAILABLE
    THEN [g EXCEPT !.previews = g.previews \cup {f}]
    ELSE g

\* preview_fit_file_dialog (Tools menu): any file may be chosen
PreviewFitFileDialog ==
    /\ pc = "ui"
    /\ \E f \in GuiBasePaths, parsed \in BOOLEAN, valid \in BOOLEAN :
          gui' = show_fit_preview(gui, f, parsed, valid)
    /\ UNCHANGED <<loop, monitor, reader, platform, FITFILETOOL_AVAILABLE,
                   FITPARSE_AVAILABLE, disk, filepath, workout_data, processed,
                   validation, workout, repair, pc>>

\* preview_selected_file with one row selected
PreviewSelectedFile ==
    /\ pc = "ui"
    /\ \E idx \in 1..Len(gui.file_listbox), parsed \in BOOLEAN, valid \in BOOLEAN :
          /\ idx <= Len(gui.selected_files)
          /\ gui' = show_fit_preview(gui, gui.selected_files[idx], parsed, valid)
    /\ UNCHANGED <<loop, monitor, reader, platform, FITFILETOOL_AVAILABLE,
                   FITPARSE_AVAILABLE, disk, filepath, workout_data, processed,
                   validation, workout, repair, pc>>

\* the Repair button of a preview window: repair_fit_file returns the new
\* path, or None with an error
DoRepair ==
    /\ pc = "ui"
    /\ \E f \in gui.previews, ok \in BOOLEAN :
          /\ Len(f) < 3 + MaxRepairs
          /\ gui' = IF ok THEN do_repair(gui, repaired_path(f)) ELSE gui
    /\ UNCHANGED <<loop, monitor, reader, platform, FITFILETOOL_AVAILABLE,
                   FITPARSE_AVAILABLE, disk, filepath, workout_data, processed,
                   validation, workout, repair, pc>>

NextFiles ==
    \/ AddFiles \/ OnDrop \/ ClearFiles
    \/ PreviewFitFileDialog \/ PreviewSelectedFile \/ DoRepair

SpecFiles == InitFiles /\ [][NextFiles]_vars

\* row i of the listbox shows selected_files[i]
RowsMatch ==
    /\ Len(gui.file_listbox) = Len(gui.selected_files)
    /\ \A i \in 1..Len(gui.selected_files) :
          /\ gui.file_listbox[i].row = "file"
          /\ gui.file_listbox[i].name = basename(gui.selected_files[i])

NoDuplicatePath ==
    \A i, j \in 1..Len(gui.selected_files) :
        gui.selected_files[i] = gui.selected_files[j] => i = j

\* C29: selected_files holds no path twice and, when it is not empty, the
\* listbox rows are its files in order, without a placeholder row, and the
\* stage button is enabled.
C29_FileListOriginal ==
    /\ NoDuplicatePath
    /\ gui.selected_files # <<>> =>
          /\ RowsMatch
          /\ gui.prepare_btn = "normal"

(***************************************************************************)
(* SpecMonitor: the device-monitor thread against the UI thread.  The UI   *)
(* thread runs one handler at a time; _on_close is two statements, and the *)
(* monitor thread may run between them.  pending counts the                *)
(* refresh_device_status callbacks handed to root.after and not yet run    *)
(* (MaxPending stands for that many or more).  What Tk does with a call    *)
(* after the window is gone is a choice among its outcomes: root.after     *)
(* raises or returns, and a callback still pending is run or never run.    *)
(* wakes counts the sleeps of the monitor that end after the close.        *)
(***************************************************************************)
MaxPending == 2

MaxWakes == 3

Devices == {"none", "charging", "mtp"}

Min(a, b) == IF a < b THEN a ELSE b

\* a loop condition that does not read the flag
monitor_test_always(g) == "after"

\* while self._monitor_running:
monitor_test(g) == IF g._monitor_running THEN "after" ELSE "exited"

\* widget.config(...) inside try/except: on a destroyed widget Tk raises,
\* the except clause swallows it
config_status(g, text) ==
    IF g.window = "destroyed" THEN [g EXCEPT !.config_destroyed = TRUE]
    ELSE [g EXCEPT !.device_status = text]

\* refresh_device_status with what detect_garmin_device and
\* check_garmin_express_running return
refresh_device_status(g, device, garmin_express_running) ==
    IF g.window = "destroyed" THEN [g EXCEPT !.guarded = TRUE]
    ELSE LET g1 == [g EXCEPT !.current_device = device, !.close_ge_btn = FALSE] IN
         IF device # "none" THEN
            IF device = "charging" THEN config_status(g1, "charging")
            ELSE IF garmin_express_running
            THEN [config_status(g1, "blocked") EXCEPT !.close_ge_btn = TRUE]
            ELSE config_status(g1, "connected")
         ELSE config_status(g1, "not detected")

\* one more callback handed to root.after
schedule(g) == [g EXCEPT !.pending = Min(g.pending + 1, MaxPending)]

InitMonitor ==
    /\ platform \in {"mac", "win"}
    /\ FITFILETOOL_AVAILABLE = FALSE
    /\ FITPARSE_AVAILABLE = TRUE
    /\ filepath = InputPath
    /\ disk = <<>>
    /\ workout_data = <<>>
    /\ processed = <<>>
    /\ validation = <<>>
    /\ workout = NoWorkout
    /\ repair = NoRepair
    /\ reader = NoReader
    /\ loop = NoLoop
    /\ gui = [window |-> "open", _monitor_running |-> TRUE, pending |-> 1,
              monitor_scheduled |-> TRUE, device_status |-> "checking",
              current_device |-> "none", close_ge_btn |-> FALSE,
              config_destroyed |-> FALSE, guarded |-> FALSE]
    /\ monitor = [at |-> "none", wakes |-> 0]
    /\ pc = "mainloop"

Closed == gui.window = "destroyed"

\* the UI thread is free to run a handler: in the main loop, or after the
\* close for a callback Tk still runs
UiIdle == pc = "mainloop"

\* a pending refresh_device_status callback runs
RefreshDeviceStatus ==
    /\ UiIdle
    /\ gui.pending > 0
    /\ \E device \in Devices, ge \in BOOLEAN,
          left \in (IF gui.pending = MaxPending THEN {MaxPending, MaxPending - 1}
                    ELSE {gui.pending - 1}) :
          gui' = refresh_device_status([gui EXCEPT !.pending = left], device, ge)
    /\ UNCHANGED <<loop, monitor, reader, platform, FITFILETOOL_AVAILABLE,
                   FITPARSE_AVAILABLE, disk, filepath, workout_data, processed,
                   validation, workout, repair, pc>>

\* close_garmin_express_clicked
CloseGarminExpressClicked ==
    /\ UiIdle
    /\ ~Closed
    /\ gui.close_ge_btn
    /\ gui' = schedule(config_status(gui, "closing"))
    /\ UNCHANGED <<loop, monitor, reader, platform, FITFILETOOL_AVAILABLE,
                   FITPARSE_AVAILABLE, disk, filepath, workout_data, processed,
                   validation, workout, repair, pc>>

\* the callback of root.after(1000, self.start_device_monitor): the thread
\* is started
StartDeviceMonitor ==
    /\ UiIdle
    /\ gui.monitor_scheduled
    /\ gui' = [gui EXCEPT !.monitor_scheduled = FALSE]
    /\ monitor' = [monitor EXCEPT !.at = "test"]
    /\ UNCHANGED <<loop, reader, platform, FITFILETOOL_AVAILABLE,
                   FITPARSE_AVAILABLE, disk, filepath, workout_data, processed,
                   validation, workout, repair, pc>>

\* _on_close, first statement: self._monitor_running = False
OnCloseFlag ==
    /\ UiIdle
    /\ ~Closed
    /\ gui' = [gui EXCEPT !._monitor_running = FALSE]
    /\ pc' = "closing"
    /\ UNCHANGED <<loop, monitor, reader, platform, FITFILETOOL_AVAILABLE,
                   FITPARSE_AVAILABLE, disk, filepath, workout_data, processed,
                   validation, workout, repair>>

\* _on_close, second statement: self.root.destroy()
OnCloseDestroy ==
    /\ pc = "closing"
    /\ gui' = [gui EXCEPT !.window = "destroyed", !.close_ge_btn = FALSE]
    /\ pc' = "mainloop"
    /\ UNCHANGED <<loop, monitor, reader, platform, FITFILETOOL_AVAILABLE,
                   FITPARSE_AVAILABLE, disk, filepath, workout_data, processed,
                   validation, workout, repair>>

\* monitor: the loop condition
MonitorTest ==
    /\ monitor.at = "test"
    /\ monitor' = [monitor EXCEPT !.at = monitor_test(gui)]
    /\ UNCHANGED <<loop, gui, reader, platform, FITFILETOOL_AVAILABLE,
                   FITPARSE_AVAILABLE, disk, filepath, workout_data, processed,
                   validation, workout, repair, pc>>

\* monitor: try: self.root.after(0, self.refresh_device_status)
\*          except: break
MonitorAfter ==
    /\ monitor.at = "after"
    /\ \/ /\ gui' = schedule(gui)
          /\ monitor' = [monitor EXCEPT !.at = "sleep"]
       \/ /\ Closed
          /\ monitor' = [monitor EXCEPT !.at = "exited"]
          /\ UNCHANGED gui
    /\ UNCHANGED <<loop, reader, platform, FITFILETOOL_AVAILABLE,
                   FITPARSE_AVAILABLE, disk, filepath, workout_data, processed,
                   validation, workout, repair, pc>>

\* monitor: time.sleep(3) ends
MonitorWake ==
    /\ monitor.at = "sleep"
    /\ monitor' = [monitor EXCEPT !.at = "test",
                      !.wakes = IF Closed THEN Min(monitor.wakes + 1, MaxWakes)
                                ELSE monitor.wakes]
    /\ UNCHANGED <<loop, gui, reader, platform, FITFILETOOL_AVAILABLE,
                   FITPARSE_AVAILABLE, disk, filepath, workout_data, processed,
                   validation, workout, repair, pc>>

MonitorThread == MonitorTest \/ MonitorAfter \/ MonitorWake

NextMonitor ==
    \/ RefreshDeviceStatus \/ CloseGarminExpressClicked \/ StartDeviceMonitor
    \/ OnCloseFlag \/ OnCloseDestroy
    \/ MonitorTest \/ MonitorAfter \/ MonitorWake

\* a started thread is scheduled and its sleep ends
SpecMonitor == InitMonitor /\ [][NextMonitor]_vars /\ WF_vars(MonitorThread)

\* C30: after the close at most one sleep of the monitor thread ends and
\* the thread leaves its loop; no refresh_device_status callback, run
\* before or after the close, configures a destroyed widget (the call
\* that would raise inside the handler).
C30_MonitorStops ==
    /\ [](monitor.wakes <= 1)
    /\ [](~gui.config_destroyed)
    /\ Closed ~> (monitor.at \in {"none", "exited"})

\* the window is gone, the monitor woke once after the close and left its
\* loop, and a callback that ran after the close returned at its guard
C30_Witness ==
    /\ Closed
    /\ monitor.at = "exited"
    /\ monitor.wakes = 1
    /\ gui.guarded

====
